---- MODULE Spec2Model ----
(***************************************************************************)
(* Scoring and decision-synthesis pipeline of the funding CRM backend:     *)
(*   ComparableCaseAgent      (similarity scoring, comparable search,      *)
(*                             outcome analysis, valuation report)         *)
(*   RiskScoringAgent         (rule-based + AI risk blending)              *)
(*   UnderwritingAssistantAgent (decision synthesis)                       *)
(*                                                                         *)
(* Numbers.  The code computes in floating point.  The model computes the  *)
(* same quantities exactly, as integers in a fixed unit:                   *)
(*   similarity scores   in thousandths (round(x, 3) * 1000)               *)
(*   risk / liability    in tenths      (round(x, 1) * 10)                 *)
(*   weighted overall    in thousandths                                    *)
(*   settlement mean / standard deviation as exact numbers with a root     *)
(*   valuation amounts   in cents, before rounding as reduced fractions    *)
(* round(x, n) is modelled as rounding to nearest, ties to even.           *)
(***************************************************************************)
EXTENDS Integers, Sequences, FiniteSets, TLC

(***************************************************************************)
(* Arithmetic helpers                                                      *)
(***************************************************************************)
Abs(x) == IF x < 0 THEN -x ELSE x

Min2(a, b) == IF a <= b THEN a ELSE b

Max2(a, b) == IF a >= b THEN a ELSE b

\* the element of a singleton: Value({e}) is e, evaluated once
Value(S) == CHOOSE x \in S : TRUE

RECURSIVE GCD(_, _)
GCD(a, b) == IF b = 0 THEN a ELSE Value({ GCD(b, r) : r \in {a % b} })

LCM(a, b) == (a * b) \div GCD(a, b)

\* round(n / d) for n >= 0, d > 0 : nearest integer, ties to even
RoundDiv(n, d) ==
    LET q == n \div d
        r == n % d
    IN  IF 2 * r < d THEN q
        ELSE IF 2 * r > d THEN q + 1
        ELSE IF q % 2 = 0 THEN q ELSE q + 1

\* sum(values)
RECURSIVE SumSeq(_)
SumSeq(sq) == IF sq = <<>> THEN 0 ELSE Head(sq) + SumSeq(Tail(sq))

(***************************************************************************)
(* dict.get(key, default) on a feature / record dictionary.  A dictionary  *)
(* is a record whose field "has" is the set of keys that are present.      *)
(***************************************************************************)
Get(d, k, default) == IF k \in d.has THEN d[k] ELSE default

(***************************************************************************)
(* State                                                                   *)
(***************************************************************************)
VARIABLES
    task,            \* which evaluation this behaviour runs
    now,             \* the clock datetime.now() reads, as a day number
    ai_calls,        \* number of generate_content calls issued so far
    ai_last,         \* how the latest call ended: "ok", "error", "malformed",
                     \*   "timeout" ("none" before the first call)
    fn_target,       \* _calculate_case_similarity: argument target_features
    fn_historical,   \* _calculate_case_similarity: argument historical_features
    fn_result,       \* its return value in thousandths, NotYet before the call
    s_pc,            \* find_comparable_cases: control point
    s_target,        \*   argument target_case
    s_corpus,        \*   argument historical_cases
    s_min,           \*   argument min_similarity (thousandths)
    s_max,           \*   argument max_results
    s_tfeat,         \*   local target_features
    s_i,             \*   loop position in historical_cases (1-based)
    s_cands,         \*   local comparable_cases
    s_sims,          \*   history: similarity_score computed per record, Skipped if it raised
    s_result,        \*   returned list
    r_pc,            \* analyze_comprehensive_risk: control point
    r_plaintiff,     \*   argument plaintiff_data
    r_ai,            \*   local ai_assessment
    r_result,        \*   returned assessment
    u_pc,            \* comprehensive_underwriting_analysis: control point
    u_plaintiff,     \*   argument plaintiff_data
    u_risk,          \*   argument risk_analysis
    u_lawfirm,       \*   argument law_firm_data
    u_comparables,   \*   argument comparable_cases
    u_fund,          \*   local case_fundamentals
    u_liab,          \*   local liability_assessment
    u_value,         \*   local case_valuation
    u_rec,           \*   returned UnderwritingRecommendation
    u_error,         \*   the exception caught by the outer except ("" if none)
    u_fin,           \*   financial_assessment (NoDict until computed)
    \* analyze_comparable_case_outcomes
    o_pc,            \*   "begin" | "trends" | "done"
    o_cases,         \*   comparable_cases
    o_result,        \*   returned dictionary
    \* generate_case_valuation_report
    v_pc,            \*   "begin" | "outcomes" | "ai" | "done"
    v_target,        \*   target_case
    v_cases,         \*   comparable_cases
    v_outcomes,      \*   local outcomes_analysis
    v_ai,            \*   local valuation_analysis
    v_val,           \*   local risk_adjusted_valuation
    v_report,        \*   returned dictionary
    \* two calls of the scorers on one record
    c_pc,            \*   "first" | "wait" | "second" | "done"
    c_case,          \*   plaintiff_data / case_data of both calls
    c_first,         \*   what the first call returned
    c_second         \*   what the second call returned

fnVars == <<fn_target, fn_historical, fn_result>>

searchVars == <<s_pc, s_target, s_corpus, s_min, s_max, s_tfeat, s_i, s_cands,
                s_sims, s_result>>

riskVars == <<r_pc, r_plaintiff, r_ai, r_result>>

uwVars == <<u_pc, u_plaintiff, u_risk, u_lawfirm, u_comparables, u_fund, u_liab,
            u_value, u_rec, u_error, u_fin>>

outcomeVars == <<o_pc, o_cases, o_result>>

valuationVars == <<v_pc, v_target, v_cases, v_outcomes, v_ai, v_val, v_report>>

repeatVars == <<c_pc, c_case, c_first, c_second>>

vars == <<task, now, ai_calls, ai_last, fnVars, searchVars, riskVars, uwVars,
          outcomeVars, valuationVars, repeatVars>>

NotYet == 0 - 1

Skipped == 0 - 2

NoDict == [has |-> {}, none |-> {}]

\* Python's None passed where a dictionary is expected
NoneObj == [has |-> {}, none |-> {"None"}]

\* an Optional[float] that is None
NoAmount == 0 - 1

(***************************************************************************)
(* ComparableCaseAgent.similarity_weights, in hundredths                   *)
(***************************************************************************)
\* mutant: case_type weighted 0.35, the table sums to 1.10
similarity_weights_heavy ==
    [case_type |-> 35, injury_severity |-> 20, liability_clarity |-> 15,
     jurisdiction |-> 10, case_age |-> 10, funding_amount |-> 10,
     law_firm_quality |-> 5, damages_type |-> 5]

\* mutant: jurisdiction weighted 0.05, the table sums to 0.95
similarity_weights_light ==
    [case_type |-> 25, injury_severity |-> 20, liability_clarity |-> 15,
     jurisdiction |-> 5, case_age |-> 10, funding_amount |-> 10,
     law_firm_quality |-> 5, damages_type |-> 5]

similarity_weights ==
    [case_type |-> 25, injury_severity |-> 20, liability_clarity |-> 15,
     jurisdiction |-> 10, case_age |-> 10, funding_amount |-> 10,
     law_firm_quality |-> 5, damages_type |-> 5]

\* mutant: severity_map.get(label, 0), an unknown label below the scale
severity_map_default_zero(label) ==
    CASE label = "minor" -> 1
      [] label = "moderate" -> 2
      [] label = "severe" -> 3
      [] label = "catastrophic" -> 4
      [] OTHER -> 0

severity_map(label) ==
    CASE label = "minor" -> 1
      [] label = "moderate" -> 2
      [] label = "severe" -> 3
      [] label = "catastrophic" -> 4
      [] OTHER -> 2

liability_map(label) ==
    CASE label = "clear" -> 3
      [] label = "disputed" -> 2
      [] label = "unclear" -> 1
      [] OTHER -> 2

\* A key that is present with the value None (JSON null)
IsNone(d, k) == k \in d.has /\ k \in d.none

\* abs(a - b) and max(1, x) raise TypeError on None: the except branch
SimilarityRaises(t, h) ==
    \/ IsNone(t, "case_age_days") \/ IsNone(h, "case_age_days")
    \/ IsNone(t, "funding_amount") \/ IsNone(h, "funding_amount")

\* mutant: the severity difference normalised by 4 steps instead of 3
SeveritySimOverFour(t, h) ==
    LET d == Abs(severity_map(Get(t, "injury_severity", "moderate"))
                 - severity_map(Get(h, "injury_severity", "moderate")))
    IN  <<Max2(0, 4 - d), 4>>

\* Each factor similarity as a fraction <<numerator, denominator>>
SeveritySim(t, h) ==
    LET d == Abs(severity_map(Get(t, "injury_severity", "moderate"))
                 - severity_map(Get(h, "injury_severity", "moderate")))
    IN  <<Max2(0, 3 - d), 3>>

LiabilitySim(t, h) ==
    LET d == Abs(liability_map(Get(t, "liability_clarity", "disputed"))
                 - liability_map(Get(h, "liability_clarity", "disputed")))
    IN  <<Max2(0, 2 - d), 2>>

CaseTypeSim(t, h) ==
    IF Get(t, "case_type", "None") = Get(h, "case_type", "None")
    THEN <<1, 1>> ELSE <<0, 1>>

JurisdictionSim(t, h) ==
    IF Get(t, "jurisdiction", "None") = Get(h, "jurisdiction", "None")
    THEN <<1, 1>> ELSE <<3, 10>>

CaseAgeSim(t, h) ==
    LET d == Abs(Get(t, "case_age_days", 365) - Get(h, "case_age_days", 365))
        g == GCD(Max2(0, 1095 - d), 1095)
    IN  <<Max2(0, 1095 - d) \div g, 1095 \div g>>

FundingSim(t, h) ==
    LET a == Max2(1, Get(t, "funding_amount", 1))
        b == Max2(1, Get(h, "funding_amount", 1))
        g == GCD(Max2(a, b), Min2(a, b))
    IN  <<Min2(a, b) \div g, Max2(a, b) \div g>>

LawFirmSim(t, h) ==
    IF Get(t, "law_firm_id", "None") = Get(h, "law_firm_id", "None")
    THEN <<1, 1>> ELSE <<1, 2>>

DamagesSim(t, h) ==
    LET a == Get(t, "damages_type", {})
        b == Get(h, "damages_type", {})
    IN  IF a # {} \/ b # {}
        THEN <<Cardinality(a \cap b), Cardinality(a \cup b)>>
        ELSE <<1, 2>>

FactorSims(t, h) ==
    [case_type |-> CaseTypeSim(t, h), injury_severity |-> SeveritySim(t, h),
     liability_clarity |-> LiabilitySim(t, h), jurisdiction |-> JurisdictionSim(t, h),
     case_age |-> CaseAgeSim(t, h), funding_amount |-> FundingSim(t, h),
     law_firm_quality |-> LawFirmSim(t, h), damages_type |-> DamagesSim(t, h)]

Factors == DOMAIN similarity_weights

RECURSIVE LCMOver(_, _)
LCMOver(fs, S) ==
    IF S = {} THEN 1
    ELSE LET k == CHOOSE x \in S : TRUE
         IN  Value({ LCM(fs[k][2], rest) : rest \in {LCMOver(fs, S \ {k})} })

RECURSIVE WeightedNum(_, _, _)
WeightedNum(fs, den, S) ==
    IF S = {} THEN 0
    ELSE LET k == CHOOSE x \in S : TRUE
         IN  Value({ similarity_weights[k] * fs[k][1] * (den \div fs[k][2]) + rest :
                        rest \in {WeightedNum(fs, den, S \ {k})} })

\* _calculate_case_similarity: round(sum(score * weight), 3), in thousandths;
\* 0.0 from the except branch
calculate_case_similarity(t, h) ==
    IF SimilarityRaises(t, h) THEN 0
    ELSE LET fs == FactorSims(t, h) IN
         Value({ RoundDiv(10 * WeightedNum(fs, den, Factors), den) :
                   den \in {LCMOver(fs, Factors)} })

(***************************************************************************)
(* Feature dictionaries the similarity function is applied to              *)
(***************************************************************************)
MaxAgeYears == 4

FeatureKeys ==
    {"case_type", "injury_severity", "liability_clarity", "jurisdiction",
     "case_age_days", "funding_amount", "law_firm_id", "damages_type"}

\* value an absent (or None) key is pinned to, so that equal dictionaries are
\* equal states
Blank ==
    [case_type |-> "None", injury_severity |-> "None", liability_clarity |-> "None",
     jurisdiction |-> "None", case_age_days |-> 0, funding_amount |-> 0,
     law_firm_id |-> "None", damages_type |-> {}]

FeatureDicts(CT, SEV, LIA, JUR, AGE, FUND, FIRM, DMG, MISSING, NONE) ==
    { f \in [has : MISSING, none : NONE, case_type : CT, injury_severity : SEV,
             liability_clarity : LIA, jurisdiction : JUR, case_age_days : AGE,
             funding_amount : FUND, law_firm_id : FIRM, damages_type : DMG] :
        \A k \in FeatureKeys : (k \in f.has \/ k \in f.none) => f[k] = Blank[k] }

\* FeatureDicts takes the sets of MISSING keys; "has" is its complement
WithHas(F) == { [f EXCEPT !.has = FeatureKeys \ f.has] : f \in F }

TargetFeatureDicts ==
    WithHas(FeatureDicts(
        {"Auto Accident", "Medical Malpractice", "None"},
        {"minor", "severe", "unknown", "None"},
        {"clear", "unclear", "None"},
        {"CA", "NY", "None"},
        {0, 365 * MaxAgeYears},
        {0 - 100, 0, 5000},
        {"F1", "None"},
        {{}, {"medical", "pain_suffering"}},
        {{}, {"injury_severity"}, {"liability_clarity"}, {"funding_amount"},
         FeatureKeys},
        {{}}))

HistoricalFeatureDicts ==
    WithHas(FeatureDicts(
        {"Auto Accident"},
        {"moderate", "catastrophic"},
        {"disputed"},
        {"NY"},
        {365, 365 * MaxAgeYears},
        {0, 20000},
        {"None"},
        {{"medical"}, {"medical", "lost_wages", "pain_suffering"}},
        {{}},
        {{}, {"funding_amount"}}))

(***************************************************************************)
(* SpecSimFn: _calculate_case_similarity applied to one pair               *)
(***************************************************************************)
\* the feature set t with another injury_severity label
SeverityVariants(t) ==
    IF "injury_severity" \in t.has
    THEN { [t EXCEPT !.injury_severity = s] :
             s \in {"minor", "moderate", "severe", "catastrophic", "unknown"} }
    ELSE {}

FnIdle == fn_target = NoDict /\ fn_historical = NoDict /\ fn_result = NotYet

SearchIdle ==
    /\ s_pc = "idle" /\ s_target = NoDict /\ s_corpus = <<>> /\ s_min = 0
    /\ s_max = 0 /\ s_tfeat = NoDict /\ s_i = 0 /\ s_cands = <<>>
    /\ s_sims = <<>> /\ s_result = <<>>

RiskIdle == r_pc = "idle" /\ r_plaintiff = NoDict /\ r_ai = NoDict /\ r_result = NoDict

UWIdle ==
    /\ u_pc = "idle" /\ u_plaintiff = NoDict /\ u_risk = NoDict /\ u_lawfirm = NoDict
    /\ u_comparables = <<>> /\ u_fund = NoDict /\ u_liab = NoDict /\ u_value = NoDict
    /\ u_rec = NoDict /\ u_error = "" /\ u_fin = NoDict

RepeatIdle ==
    c_pc = "idle" /\ c_case = NoDict /\ c_first = NoDict /\ c_second = NoDict

OutcomeIdle == o_pc = "idle" /\ o_cases = <<>> /\ o_result = NoDict

ValuationIdle ==
    /\ v_pc = "idle" /\ v_target = NoDict /\ v_cases = <<>> /\ v_outcomes = NoDict
    /\ v_ai = NoDict /\ v_val = NoDict /\ v_report = NoDict

InitSimFn ==
    /\ task = "calculate_case_similarity"
    /\ now = 0 /\ RepeatIdle
    /\ ai_calls = 0 /\ ai_last = "none"
    /\ fn_target \in TargetFeatureDicts
    /\ fn_historical \in {fn_target} \cup HistoricalFeatureDicts
                            \cup SeverityVariants(fn_target)
    /\ fn_result = NotYet
    /\ SearchIdle /\ RiskIdle /\ UWIdle /\ OutcomeIdle /\ ValuationIdle

CalcSimilarity ==
    /\ task = "calculate_case_similarity"
    /\ fn_result = NotYet
    /\ fn_result' = calculate_case_similarity(fn_target, fn_historical)
    /\ UNCHANGED <<task, now, repeatVars, outcomeVars, valuationVars, ai_calls, ai_last,
                   fn_target, fn_historical, searchVars, riskVars,
                   uwVars>>

NextSimFn == CalcSimilarity

SpecSimFn == InitSimFn /\ [][NextSimFn]_vars

(***************************************************************************)
(* Case records (plaintiff record or historical record) and the semantic   *)
(* extraction service                                                      *)
(***************************************************************************)
MaxCorpus == 3

\* incident_date: absent, an unparseable string, an ISO string, or a datetime
\* object (which json.dumps cannot serialise); "day" is the day number
NoDate == [kind |-> "none", day |-> 0]

IsoDate(day) == [kind |-> "str", day |-> day]

DateTimeObj(day) == [kind |-> "datetime", day |-> day]

CaseRecord(ct, settlement, date) ==
    [case_type |-> ct, jurisdiction |-> "NY", funding_amount |-> 5000,
     incident_date |-> date, law_firm_id |-> "None",
     settlement_amount |-> settlement, outcome |-> "settled",
     duration_months |-> 12]

TargetCases ==
    {CaseRecord("Auto Accident", 0, IsoDate(0 - 365)),
     CaseRecord("Auto Accident", 0, DateTimeObj(0 - 365))}

HistoricalCases ==
    {CaseRecord("Auto Accident", 10000, IsoDate(0 - 365)),
     CaseRecord("Auto Accident", 30000, IsoDate(0 - 365)),
     CaseRecord("Slip and Fall", 30000, IsoDate(0 - 365)),
     CaseRecord("Auto Accident", 30000, DateTimeObj(0 - 365))}

\* a record with "funding_amount": None
UnfundedCase ==
    [CaseRecord("Auto Accident", 10000, IsoDate(0 - 365))
        EXCEPT !.funding_amount = NoAmount]

Corpora ==
    UNION { [1..n -> HistoricalCases] : n \in 0..MaxCorpus }
    \cup { <<UnfundedCase>> \o c : c \in [1..1 -> HistoricalCases] \cup {<<>>} }
    \cup { c \o <<UnfundedCase>> : c \in [1..2 -> HistoricalCases] }

\* What generate_content + json.loads yield for a feature-extraction prompt:
\* a JSON object, or a failure (service error, malformed JSON, timeout)
FeatureResponses ==
    {[kind |-> "ok", injury_severity |-> "minor", liability_clarity |-> "clear",
      damages_type |-> {"medical"}],
     [kind |-> "ok", injury_severity |-> "severe", liability_clarity |-> "disputed",
      damages_type |-> {"medical", "lost_wages"}],
     [kind |-> "error", injury_severity |-> "None", liability_clarity |-> "None",
      damages_type |-> {}],
     [kind |-> "malformed", injury_severity |-> "None", liability_clarity |-> "None",
      damages_type |-> {}],
     [kind |-> "timeout", injury_severity |-> "None", liability_clarity |-> "None",
      damages_type |-> {}]}

\* mutant: the age counted up to a fixed day instead of datetime.now()
calculate_case_age_fixed_day(date, today) ==
    IF date.kind = "none" THEN 365
    ELSE IF date.kind = "badstr" THEN 365
    ELSE 0 - date.day

\* _calculate_case_age
calculate_case_age(date, today) ==
    IF date.kind = "none" THEN 365
    ELSE IF date.kind = "badstr" THEN 365
    ELSE today - date.day

\* the fields both _extract_case_features and _get_default_features compute
CalculatedFeatures(c, today) ==
    [has |-> FeatureKeys,
     none |-> IF c.funding_amount = NoAmount THEN {"funding_amount"} ELSE {},
     case_type |-> c.case_type, jurisdiction |-> c.jurisdiction,
     funding_amount |-> IF c.funding_amount = NoAmount THEN 0 ELSE c.funding_amount,
     case_age_days |-> calculate_case_age(c.incident_date, today),
     law_firm_id |-> c.law_firm_id,
     injury_severity |-> "moderate", liability_clarity |-> "disputed",
     damages_type |-> {"medical", "pain_suffering"}]

\* _get_default_features
get_default_features(c, today) == CalculatedFeatures(c, today)

\* mutant: building the prompt never raises
PromptRaisesNever(c) == FALSE

\* json.dumps(case_data) while the prompt is built, before the try block
PromptRaises(c) == c.incident_date.kind = "datetime"

\* _extract_case_features, given the service's response
extract_case_features(c, resp, today) ==
    IF resp.kind = "ok"
    THEN [CalculatedFeatures(c, today) EXCEPT
            !.injury_severity = resp.injury_severity,
            !.liability_clarity = resp.liability_clarity,
            !.damages_type = resp.damages_type]
    ELSE get_default_features(c, today)

(***************************************************************************)
(* find_comparable_cases                                                   *)
(***************************************************************************)
ComparableCase(id, h, sim) ==
    [case_id |-> id, case_type |-> h.case_type,
     settlement_amount |-> h.settlement_amount,
     funding_amount |-> h.funding_amount,
     case_duration_months |-> h.duration_months, outcome |-> h.outcome,
     jurisdiction |-> h.jurisdiction, similarity_score |-> sim]

\* mutant: empty corpus not short-circuited
EmptyCorpusNever(corpus) == FALSE

\* "if not historical_cases"
EmptyCorpus(corpus) == corpus = <<>>

\* mutant: threshold ignored
QualifiesAlways(sim, min) == TRUE

\* "if similarity_score >= min_similarity"
Qualifies(sim, min) == sim >= min

RECURSIVE InsertDesc(_, _)
InsertDesc(seq, c) ==
    IF seq = <<>> THEN <<c>>
    ELSE IF Head(seq).similarity_score >= c.similarity_score
         THEN <<Head(seq)>> \o InsertDesc(Tail(seq), c)
         ELSE <<c>> \o seq

RECURSIVE SortFrom(_, _)
SortFrom(sorted, rest) ==
    IF rest = <<>> THEN sorted
    ELSE SortFrom(InsertDesc(sorted, Head(rest)), Tail(rest))

\* mutant: an unstable sort that puts later equal elements first
RECURSIVE InsertDescUnstable(_, _)
InsertDescUnstable(seq, c) ==
    IF seq = <<>> THEN <<c>>
    ELSE IF Head(seq).similarity_score > c.similarity_score
         THEN <<Head(seq)>> \o InsertDescUnstable(Tail(seq), c)
         ELSE <<c>> \o seq

RECURSIVE SortFromUnstable(_, _)
SortFromUnstable(sorted, rest) ==
    IF rest = <<>> THEN sorted
    ELSE SortFromUnstable(InsertDescUnstable(sorted, Head(rest)), Tail(rest))

SortBySimilarityUnstable(cands) == SortFromUnstable(<<>>, cands)

\* comparable_cases.sort(key=similarity_score, reverse=True): a stable sort
SortBySimilarity(cands) == SortFrom(<<>>, cands)

\* mutant: the slice is dropped
TopResultsAll(cands, max) == SortBySimilarity(cands)

\* sort, then comparable_cases[:max_results]
TopResults(cands, max) ==
    SubSeq(SortBySimilarity(cands), 1, Min2(max, Len(cands)))

InitSearch ==
    /\ task = "find_comparable_cases"
    /\ now = 0 /\ RepeatIdle
    /\ ai_calls = 0 /\ ai_last = "none"
    /\ FnIdle /\ RiskIdle /\ UWIdle /\ OutcomeIdle /\ ValuationIdle
    /\ s_pc = "begin"
    /\ s_target \in TargetCases
    /\ s_corpus \in Corpora
    /\ s_min \in {0, 300, 800}
    /\ s_max \in {1, 10}
    /\ s_tfeat = NoDict /\ s_i = 0 /\ s_cands = <<>> /\ s_sims = <<>>
    /\ s_result = <<>>

\* entry: the empty-corpus return, or on to the target's feature extraction
SearchBegin ==
    /\ s_pc = "begin"
    /\ s_pc' = IF EmptyCorpus(s_corpus) THEN "done" ELSE "target"
    /\ UNCHANGED <<task, now, repeatVars, outcomeVars, valuationVars, ai_calls, ai_last,
                   fnVars, riskVars, uwVars, s_target, s_corpus, s_min, s_max,
                   s_tfeat, s_i, s_cands, s_sims, s_result>>

\* target_features = await _extract_case_features(target_case); building the
\* prompt may raise, which the outer except turns into "return []"
SearchExtractTarget ==
    /\ s_pc = "target"
    /\ IF PromptRaises(s_target)
       THEN /\ s_pc' = "done"
            /\ UNCHANGED <<ai_calls, ai_last, s_tfeat, s_i>>
       ELSE \E resp \in FeatureResponses :
            /\ s_tfeat' = extract_case_features(s_target, resp, now)
            /\ ai_calls' = ai_calls + 1 /\ ai_last' = resp.kind
            /\ s_i' = 1
            /\ s_pc' = "loop"
    /\ UNCHANGED <<task, now, repeatVars, outcomeVars, valuationVars, fnVars, riskVars, uwVars, s_target, s_corpus, s_min, s_max, s_cands,
                   s_sims, s_result>>

\* one iteration of "for historical_case in historical_cases"
SearchProcessRecord ==
    /\ s_pc = "loop"
    /\ s_i <= Len(s_corpus)
    /\ LET h == s_corpus[s_i] IN
       IF PromptRaises(h)
       THEN /\ s_sims' = Append(s_sims, Skipped)
            /\ UNCHANGED <<ai_calls, ai_last, s_cands>>
       ELSE \E resp \in FeatureResponses :
            LET hf  == extract_case_features(h, resp, now)
                sim == calculate_case_similarity(s_tfeat, hf)
            IN  /\ ai_calls' = ai_calls + 1 /\ ai_last' = resp.kind
                /\ s_sims' = Append(s_sims, sim)
                /\ s_cands' = IF Qualifies(sim, s_min)
                              THEN Append(s_cands, ComparableCase(s_i, h, sim))
                              ELSE s_cands
    /\ s_i' = s_i + 1
    /\ UNCHANGED <<task, now, repeatVars, outcomeVars, valuationVars, fnVars, riskVars, uwVars, s_pc, s_target, s_corpus, s_min, s_max,
                   s_tfeat, s_result>>

\* sort and return the top results
SearchReturn ==
    /\ s_pc = "loop"
    /\ s_i > Len(s_corpus)
    /\ s_result' = TopResults(s_cands, s_max)
    /\ s_pc' = "done"
    /\ UNCHANGED <<task, now, repeatVars, outcomeVars, valuationVars, ai_calls, ai_last,
                   fnVars, riskVars, uwVars, s_target, s_corpus, s_min, s_max,
                   s_tfeat, s_i, s_cands, s_sims>>

NextSearch ==
    \/ SearchBegin
    \/ SearchExtractTarget
    \/ SearchProcessRecord
    \/ SearchReturn

SpecSearch == InitSearch /\ [][NextSearch]_vars

(***************************************************************************)
(* analyze_comparable_case_outcomes                                        *)
(* probabilities in thousandths, durations in tenths of a month; amounts   *)
(* that involve the standard deviation are exact numbers with a square     *)
(* root (Real)                                                             *)
(***************************************************************************)
MaxComparables == 3

\* the number unit * (a + b * sqrt(v)) / d, with d > 0 and unit > 0
Real(a, b, v, d, unit) == [a |-> a, b |-> b, v |-> v, d |-> d, unit |-> unit]

RealZero == Real(0, 0, 0, 1, 1)

\* the sign of a Real: -1, 0 or 1
RealSign(x) ==
    LET sq == x.b * x.b * x.v
        aa == x.a * x.a
    IN  IF x.b = 0 \/ x.v = 0 THEN (IF x.a > 0 THEN 1 ELSE IF x.a < 0 THEN 0 - 1 ELSE 0)
        ELSE IF x.a >= 0 /\ x.b > 0 THEN 1
        ELSE IF x.a <= 0 /\ x.b < 0 THEN 0 - 1
        ELSE IF x.a > 0 THEN (IF aa > sq THEN 1 ELSE IF aa < sq THEN 0 - 1 ELSE 0)
        ELSE (IF sq > aa THEN 1 ELSE IF sq < aa THEN 0 - 1 ELSE 0)

\* x <= y for two Reals that are zero or share root, denominator and unit
RealLeq(x, y) ==
    IF x = RealZero THEN RealSign(y) >= 0
    ELSE IF y = RealZero THEN RealSign(x) <= 0
    ELSE RealSign(Real(y.a - x.a, y.b - x.b, x.v, x.d, x.unit)) >= 0

\* max(0, x)
RealUnclamped(x) == x

RealMax0(x) == IF RealSign(x) > 0 THEN x ELSE RealZero

\* a ComparableCase handed to the outcome analysis; the outcome "None" and
\* the settlement NoAmount stand for Python's None
OutcomeCase(settlement, duration, outcome, sim) ==
    [case_id |-> 0, case_type |-> "Auto Accident", settlement_amount |-> settlement,
     funding_amount |-> 5000, case_duration_months |-> duration,
     outcome |-> outcome, jurisdiction |-> "NY", similarity_score |-> sim]

OutcomeCases ==
    {OutcomeCase(1000, 12, "settled", 800),
     OutcomeCase(3000, 24, "Settled", 600),
     OutcomeCase(0, 0, "dismissed", 400),
     OutcomeCase(1000, 12, "None", 800),
     OutcomeCase(10000, 12, "favorable", 800),
     OutcomeCase(20000, 18, " Settled ", 700),
     OutcomeCase(30000, 36, "judgment_plaintiff", 500),
     OutcomeCase(0 - 2000, 6, "lost", 300)}

\* the settlement of the i-th case of a long list: all equal (std 0),
\* std / mean = 0.4, std / mean = 2 / 3, one outlier (std > mean), or none
PatternSettlement(pattern, i) ==
    CASE pattern = "equal" -> 10000
      [] pattern = "cv04" -> IF i % 2 = 1 THEN 6000 ELSE 14000
      [] pattern = "cv067" -> IF i % 2 = 1 THEN 1000 ELSE 5000
      [] pattern = "outlier" -> IF i = 1 THEN 30000 ELSE 1000
      [] OTHER -> 0

\* lists of 6, 10 and 12 comparables of one similarity score
LongOutcomeLists ==
    { [i \in 1..n |-> OutcomeCase(PatternSettlement(pattern, i), 12, "settled", sim)] :
        n \in {6, 10, 12}, sim \in {800, 500, 300, 200},
        pattern \in {"equal", "cv04", "cv067", "outlier", "none"} }

OutcomeCaseLists ==
    UNION { [1..n -> OutcomeCases] : n \in 0..MaxComparables } \cup LongOutcomeLists

\* str.lower() on the outcomes of the domain
Lower(str) ==
    IF str = "Settled" THEN "settled"
    ELSE IF str = " Settled " THEN " settled "
    ELSE str

\* str.strip() on the lower-cased outcomes of the domain
Strip(str) == IF str = " settled " THEN "settled" ELSE str

\* outcome.lower(), the normalisation of the success count
SuccessKey(outcome) == Lower(outcome)

\* outcome.lower().strip(), the normalisation of the distribution
DistributionKey(outcome) == Strip(Lower(outcome))

\* the elements of a sequence of numbers that are > 0
RECURSIVE Positive(_)
Positive(sq) ==
    IF sq = <<>> THEN <<>>
    ELSE (IF Head(sq) > 0 THEN <<Head(sq)>> ELSE <<>>) \o Positive(Tail(sq))

RECURSIVE SumSquares(_)
SumSquares(sq) ==
    IF sq = <<>> THEN 0 ELSE Head(sq) * Head(sq) + SumSquares(Tail(sq))

RECURSIVE InsertAsc(_, _)
InsertAsc(x, sq) ==
    IF sq = <<>> THEN <<x>>
    ELSE IF x <= Head(sq) THEN <<x>> \o sq
    ELSE <<Head(sq)>> \o InsertAsc(x, Tail(sq))

\* sorted(values)
RECURSIVE Sorted(_)
Sorted(sq) == IF sq = <<>> THEN <<>> ELSE InsertAsc(Head(sq), Sorted(Tail(sq)))

\* the greatest common divisor of a non-empty sequence of positive numbers
RECURSIVE GCDOver(_)
GCDOver(sq) ==
    IF Len(sq) = 1 THEN Head(sq)
    ELSE Value({ GCD(Head(sq), r) : r \in {GCDOver(Tail(sq))} })

\* sorted(settlements)[len(settlements) // 2]
MedianElement(sorted) == <<sorted[(Len(sorted) \div 2) + 1], 1>>

\* settlement_stats over a non-empty list, the amounts counted in the unit
\* that divides them all:
\*   mean = sum / count                        median = median[1] / median[2]
\*   std  = unit * sqrt(variance_units) / count
settlement_statistics(settlements) ==
    LET n      == Len(settlements)
        total  == SumSeq(settlements)
        sorted == Sorted(settlements)
        unit   == GCDOver(settlements)
        xs     == [i \in 1..n |-> settlements[i] \div unit]
        units  == SumSeq(xs)
    IN  [has |-> {"mean", "median", "std", "min", "max"},
         count |-> n, sum |-> total,
         median |-> MedianElement(sorted),
         unit |-> unit, sum_units |-> units,
         variance_units |-> n * SumSquares(xs) - units * units,
         min |-> sorted[1], max |-> sorted[n]]

\* settlement_stats when no settlement is positive: {}
zero_settlement_statistics ==
    [has |-> {"mean", "median", "std", "min", "max"},
     count |-> 1, sum |-> 0, median |-> <<0, 1>>, unit |-> 1, sum_units |-> 0,
     variance_units |-> 0, min |-> 0, max |-> 0]

no_settlement_statistics == NoDict

\* the estimated range of a non-empty list of settlements:
\* low = max(0, mean - std), high = mean + std
estimated_range(stats) ==
    [low  |-> RealMax0(Real(stats.sum_units, 0 - 1, stats.variance_units,
                            stats.count, stats.unit)),
     high |-> Real(stats.sum_units, 1, stats.variance_units, stats.count, stats.unit)]

\* number of outcomes whose lower-cased form is a successful one
RECURSIVE SuccessfulCases(_)
SuccessfulCases(outcomes) ==
    IF outcomes = <<>> THEN 0
    ELSE (IF SuccessKey(Head(outcomes)) \in {"settled", "judgment_plaintiff", "favorable"}
          THEN 1 ELSE 0) + SuccessfulCases(Tail(outcomes))

\* hasattr(case, 'case_age_days') and case.case_age_days <= 1095: a
\* ComparableCase has no attribute case_age_days
IsRecentCase(case) ==
    "case_age_days" \in DOMAIN case /\ case.case_age_days <= 1095

\* confidence_score of _calculate_prediction_confidence
confidence_score(cases, stats) ==
    LET n      == Len(cases)
        simsum == SumSeq([i \in 1..n |-> cases[i].similarity_score])
        count_points == IF n >= 10 THEN 30 ELSE IF n >= 5 THEN 20
                        ELSE IF n >= 3 THEN 10 ELSE 0
        sim_points == IF simsum >= 700 * n THEN 30
                      ELSE IF simsum >= 500 * n THEN 20
                      ELSE IF simsum >= 300 * n THEN 10 ELSE 0
        \* cv = std / mean: cv <= 0.5 iff 4 * variance <= mean ** 2
        cv_points == IF stats.has # {} /\ stats.variance_units > 0
                     THEN IF 4 * stats.variance_units <= stats.sum_units * stats.sum_units
                          THEN 25
                          ELSE IF stats.variance_units <= stats.sum_units * stats.sum_units
                          THEN 15
                          ELSE 5
                     ELSE 0
        recent_cases  == Cardinality({ i \in 1..n : IsRecentCase(cases[i]) })
        recent_points == IF 10 * recent_cases >= 7 * n THEN 15 ELSE 0
    IN  count_points + sim_points + cv_points + recent_points

\* _calculate_prediction_confidence
calculate_prediction_confidence(cases, stats) ==
    LET score == confidence_score(cases, stats)
    IN  IF score >= 80 THEN "high" ELSE IF score >= 50 THEN "medium" ELSE "low"

\* _calculate_outcome_distribution: the counts per normalised outcome
calculate_outcome_distribution(outcomes) ==
    LET names == { DistributionKey(outcomes[i]) : i \in 1..Len(outcomes) }
    IN  [total_cases |-> Len(outcomes),
         counts |-> [o \in names |->
                       Cardinality({ i \in 1..Len(outcomes) :
                                       DistributionKey(outcomes[i]) = o })]]

\* the result returned for an empty list
NoComparablesResult ==
    [has |-> {"prediction_confidence", "estimated_settlement_range",
              "success_probability", "average_duration_months", "analysis"},
     prediction_confidence |-> "low",
     estimated_settlement_range |-> [low |-> RealZero, high |-> RealZero],
     success_probability |-> 500,
     average_duration_months |-> 180,
     analysis |-> "No comparable cases available"]

\* the result of the except branch
OutcomeErrorResult(msg) ==
    [has |-> {"prediction_confidence", "error", "analysis"},
     prediction_confidence |-> "low",
     error |-> msg,
     analysis |-> "Error in comparable case analysis"]

\* the exception the statistics raise on the list, if any
OutcomeError(cases) ==
    IF \E i \in 1..Len(cases) : cases[i].settlement_amount = NoAmount
    THEN "'>' not supported between instances of 'NoneType' and 'int'"
    ELSE IF \E i \in 1..Len(cases) : cases[i].outcome = "None"
    THEN "'NoneType' object has no attribute 'lower'"
    ELSE ""

\* What generate_content + json.loads yield for the trends prompt
TrendsResponses == { [kind |-> k] : k \in {"ok", "error", "malformed", "timeout"} }

\* _analyze_outcome_trends, given the service's response
analyze_outcome_trends(resp) == IF resp.kind = "ok" THEN "ai" ELSE "default"

\* the dictionary analyze_comparable_case_outcomes returns for a non-empty list
outcome_analysis(cases, trends) ==
    LET n           == Len(cases)
        settlements == Positive([i \in 1..n |-> cases[i].settlement_amount])
        durations   == Positive([i \in 1..n |-> cases[i].case_duration_months])
        outcomes    == [i \in 1..n |-> cases[i].outcome]
        stats       == IF settlements # <<>> THEN settlement_statistics(settlements)
                       ELSE no_settlement_statistics
    IN  [has |-> {"prediction_confidence", "estimated_settlement_range",
                  "settlement_statistics", "success_probability",
                  "average_duration_months", "case_count", "trends_analysis",
                  "outcome_distribution", "analysis"},
         prediction_confidence |-> calculate_prediction_confidence(cases, stats),
         settlement_statistics |-> stats,
         estimated_settlement_range |->
            IF settlements = <<>> THEN [low |-> RealZero, high |-> RealZero]
            ELSE estimated_range(stats),
         success_probability |-> RoundDiv(1000 * SuccessfulCases(outcomes), n),
         average_duration_months |->
            IF durations # <<>>
            THEN RoundDiv(10 * SumSeq(durations), Len(durations)) ELSE 180,
         case_count |-> n,
         trends_analysis |-> trends,
         outcome_distribution |-> calculate_outcome_distribution(outcomes)]

InitOutcome ==
    /\ task = "analyze_comparable_case_outcomes"
    /\ now = 0 /\ RepeatIdle
    /\ ai_calls = 0 /\ ai_last = "none"
    /\ FnIdle /\ SearchIdle /\ RiskIdle /\ UWIdle /\ ValuationIdle
    /\ o_pc = "begin"
    /\ o_cases \in OutcomeCaseLists
    /\ o_result = NoDict

\* entry: the empty-list return, the statistics (which may raise), or on to
\* the trends call
OutcomeBegin ==
    /\ o_pc = "begin"
    /\ IF o_cases = <<>>
       THEN o_result' = NoComparablesResult /\ o_pc' = "done"
       ELSE IF OutcomeError(o_cases) # ""
       THEN o_result' = OutcomeErrorResult(OutcomeError(o_cases)) /\ o_pc' = "done"
       ELSE o_result' = o_result /\ o_pc' = "trends"
    /\ UNCHANGED <<task, now, repeatVars, ai_calls, ai_last, fnVars, searchVars, riskVars, uwVars,
                   valuationVars, o_cases>>

\* the trends call returns or fails; the result is assembled
OutcomeTrends ==
    /\ o_pc = "trends"
    /\ \E resp \in TrendsResponses :
        /\ ai_calls' = ai_calls + 1 /\ ai_last' = resp.kind
        /\ o_result' = outcome_analysis(o_cases, analyze_outcome_trends(resp))
    /\ o_pc' = "done"
    /\ UNCHANGED <<task, now, repeatVars, fnVars, searchVars, riskVars, uwVars, valuationVars,
                   o_cases>>

NextOutcome == OutcomeBegin \/ OutcomeTrends

SpecOutcome == InitOutcome /\ [][NextOutcome]_vars

(***************************************************************************)
(* generate_case_valuation_report                                          *)
(* reported amounts in cents, multipliers in thousandths; values before    *)
(* rounding are reduced fractions <<numerator, denominator>> of a dollar   *)
(***************************************************************************)
Frac(n, d) == LET g == GCD(Abs(n), d) IN <<n \div g, d \div g>>

FracMul(x, y) ==
    LET g1 == GCD(Abs(x[1]), y[2])
        g2 == GCD(Abs(y[1]), x[2])
    IN  Frac((x[1] \div g1) * (y[1] \div g2), (x[2] \div g2) * (y[2] \div g1))

FracAdd(x, y) == Frac(x[1] * y[2] + y[1] * x[2], x[2] * y[2])

\* round(x * scale) of a fraction x >= 0
RoundFrac(x, scale) ==
    LET y == FracMul(x, <<scale, 1>>) IN RoundDiv(y[1], y[2])

\* math.sqrt of a perfect square
Sqrt(v) == CHOOSE r \in 0..v : r * r = v

\* the value of a Real whose root is rational
RealValue(x) ==
    Frac(x.unit * (x.a + (IF x.b = 0 \/ x.v = 0 THEN 0 ELSE x.b * Sqrt(x.v))), x.d)

\* a target case: caseType / case_type "None" means the key is absent
ValuationTarget(ct, ct_snake, requested) ==
    [has |-> {"requestedAmount"}
             \cup (IF ct = "None" THEN {} ELSE {"caseType"})
             \cup (IF ct_snake = "None" THEN {} ELSE {"case_type"}),
     none |-> {},
     caseType |-> ct, case_type |-> ct_snake, requestedAmount |-> requested]

\* What generate_content + json.loads yield for the valuation prompt: an
\* object with or without relative_strength and estimated_range, a JSON
\* list, an estimated_range of strings, or a failure
AIValuationResponses ==
    { [kind |-> "ok", isdict |-> TRUE, has |-> {"relative_strength", "estimated_range"},
       relative_strength |-> st, numeric |-> TRUE, low |-> r[1], high |-> r[2]] :
         st \in {"stronger", "similar", "weaker"},
         r \in {<<20000, 40000>>, <<0, 0>>} }
    \cup { [kind |-> "ok", isdict |-> TRUE, has |-> {},
            relative_strength |-> "similar", numeric |-> TRUE, low |-> 0, high |-> 0],
           [kind |-> "ok", isdict |-> FALSE, has |-> {},
            relative_strength |-> "similar", numeric |-> TRUE, low |-> 0, high |-> 0],
           [kind |-> "ok", isdict |-> TRUE, has |-> {"relative_strength", "estimated_range"},
            relative_strength |-> "stronger", numeric |-> FALSE, low |-> 0, high |-> 0] }
    \cup { [kind |-> k, isdict |-> FALSE, has |-> {},
            relative_strength |-> "similar", numeric |-> TRUE, low |-> 0, high |-> 0] :
             k \in {"error", "malformed", "timeout"} }

\* _ai_valuation_analysis, given the service's response
ai_valuation_analysis(resp) ==
    IF resp.kind = "ok"
    THEN [isdict |-> resp.isdict, has |-> resp.has,
          relative_strength |-> resp.relative_strength,
          numeric |-> resp.numeric, low |-> resp.low, high |-> resp.high]
    ELSE [isdict |-> TRUE, has |-> {"relative_strength", "estimated_range"},
          relative_strength |-> "similar", numeric |-> TRUE, low |-> 0, high |-> 0]

\* the exception _ai_valuation_analysis raises before its try, if any
AIValuationError(target) ==
    IF target = NoneObj THEN "'NoneType' object has no attribute 'get'" ELSE ""

\* comparable_mean: (low + high) / 2 of the estimated settlement range
comparable_mean(outcomes) ==
    IF "estimated_settlement_range" \notin outcomes.has THEN <<0, 1>>
    ELSE LET range == outcomes.estimated_settlement_range
         IN  IF range.low = RealZero
             THEN FracMul(RealValue(range.high), <<1, 2>>)
             ELSE \* (mean - std) + (mean + std): the roots cancel
                  Frac(range.low.unit * (range.low.a + range.high.a), 2 * range.low.d)

\* ai_mean: (low + high) / 2 of the service's estimated range
ai_mean(ai) ==
    IF "estimated_range" \in ai.has THEN Frac(ai.low + ai.high, 2) ELSE <<0, 1>>

\* case_type_averages.get(case_type, 50000)
case_type_average(ct) ==
    CASE ct = "Auto Accident" -> 45000
      [] ct = "Slip and Fall" -> 35000
      [] ct = "Medical Malpractice" -> 125000
      [] ct = "Workers Compensation" -> 25000
      [] ct = "Product Liability" -> 85000
      [] OTHER -> 50000

\* estimated_value before the risk adjustment
base_estimate(outcomes, ai, target) ==
    LET cm == comparable_mean(outcomes)
        am == ai_mean(ai)
    IN  IF cm[1] > 0 /\ am[1] > 0
        THEN FracAdd(FracMul(cm, <<6, 10>>), FracMul(am, <<4, 10>>))
        ELSE IF cm[1] > 0 THEN cm
        ELSE IF am[1] > 0 THEN am
        ELSE <<case_type_average(
                   Get(target, "caseType", Get(target, "case_type", "Auto Accident"))), 1>>

\* mutant: a stronger case gains 20 percent
strength_factor_stronger_120(ai) ==
    LET relative_strength == Get(ai, "relative_strength", "similar")
    IN  IF relative_strength = "stronger" THEN <<12, 10>>
        ELSE IF relative_strength = "weaker" THEN <<9, 10>>
        ELSE <<1, 1>>

\* the case strength adjustment
strength_factor(ai) ==
    LET relative_strength == Get(ai, "relative_strength", "similar")
    IN  IF relative_strength = "stronger" THEN <<11, 10>>
        ELSE IF relative_strength = "weaker" THEN <<9, 10>>
        ELSE <<1, 1>>

\* risk_multiplier
risk_multiplier(outcomes, ai) ==
    FracMul(Frac(Get(outcomes, "success_probability", 500), 1000), strength_factor(ai))

\* the exception _calculate_risk_adjusted_valuation catches, if any
RiskAdjustedError(ai) ==
    IF ~ai.isdict THEN "'list' object has no attribute 'get'"
    ELSE IF "estimated_range" \in ai.has /\ ~ai.numeric
    THEN "unsupported operand type(s) for /: 'str' and 'int'"
    ELSE ""

\* _calculate_risk_adjusted_valuation
calculate_risk_adjusted_valuation(outcomes, ai, target) ==
    IF RiskAdjustedError(ai) # ""
    THEN [has |-> {"estimated_value", "confidence_range", "risk_adjustment", "error"},
          estimated_value |-> 5000000,
          confidence_range |-> [low |-> <<35000, 1>>, high |-> <<65000, 1>>],
          risk_adjustment |-> 1000,
          base_valuation |-> 0,
          error |-> RiskAdjustedError(ai)]
    ELSE LET base       == base_estimate(outcomes, ai, target)
             multiplier == risk_multiplier(outcomes, ai)
             value      == FracMul(base, multiplier)
         IN  [has |-> {"estimated_value", "confidence_range", "risk_adjustment",
                       "base_valuation", "methodology"},
              estimated_value |-> RoundFrac(value, 100),
              confidence_range |-> [low  |-> FracMul(value, <<7, 10>>),
                                    high |-> FracMul(value, <<13, 10>>)],
              risk_adjustment |-> RoundFrac(multiplier, 1000),
              base_valuation |-> RoundFrac(base, 100),
              error |-> ""]

\* _generate_funding_recommendations
generate_funding_recommendations(valuation, outcomes, target) ==
    LET estimated_value     == valuation.estimated_value
        requested_amount    == Get(target, "requestedAmount",
                                   Get(target, "funding_amount", 0))
        success_probability == Get(outcomes, "success_probability", 500)
        max_funding_ratio   == IF success_probability >= 700 THEN 12 ELSE 10
        level == IF 10000 * requested_amount <= max_funding_ratio * estimated_value
                 THEN <<"APPROVE", "LOW">>
                 ELSE IF 10000 * requested_amount <= 20 * estimated_value
                 THEN <<"CONDITIONAL", "MEDIUM">>
                 ELSE <<"REDUCE_AMOUNT", "HIGH">>
    IN  [funding_recommendation |-> level[1],
         risk_level |-> level[2],
         max_recommended_amount |-> RoundDiv(max_funding_ratio * estimated_value, 100),
         \* percent, in tenths
         funding_ratio |-> IF estimated_value > 0
                           THEN RoundFrac(Frac(100 * requested_amount, estimated_value),
                                          1000)
                           ELSE 0,
         success_probability |-> success_probability]

\* the valuation_summary of a report: the text of the two reports without a
\* valuation, or the three values of the computed one
SummaryText(text) ==
    [has |-> {}, text |-> text, estimated_value |-> NoAmount,
     confidence_range |-> [low |-> <<0, 1>>, high |-> <<0, 1>>],
     risk_adjustment |-> NoAmount]

SummaryOf(valuation) ==
    [has |-> {"estimated_value", "confidence_range", "risk_adjustment"}, text |-> "",
     estimated_value |-> valuation.estimated_value,
     confidence_range |-> valuation.confidence_range,
     risk_adjustment |-> valuation.risk_adjustment]

\* mutant: the report for an empty list carries the default of the case type
no_comparables_report_with_default ==
    [has |-> {"valuation_summary", "confidence"},
     valuation_summary |->
        [has |-> {"estimated_value"}, text |-> "", estimated_value |-> 4500000,
         confidence_range |-> [low |-> <<0, 1>>, high |-> <<0, 1>>],
         risk_adjustment |-> NoAmount],
     confidence |-> "none", error |-> ""]

\* the report returned for an empty list
no_comparables_report ==
    [has |-> {"valuation_summary", "confidence"},
     valuation_summary |-> SummaryText("No comparable cases available for valuation"),
     confidence |-> "none", error |-> ""]

\* the report of the except branch
valuation_error_report(msg) ==
    [has |-> {"error", "valuation_summary", "confidence"},
     valuation_summary |-> SummaryText("Manual valuation required"),
     confidence |-> "none", error |-> msg]

\* the report of the computed path
valuation_report(valuation, outcomes, ai, target, cases) ==
    [has |-> {"valuation_summary", "comparable_analysis", "ai_insights",
              "funding_recommendations", "methodology", "comparable_case_count",
              "analysis_date"},
     valuation_summary |-> SummaryOf(valuation),
     comparable_analysis |-> outcomes,
     ai_insights |-> ai,
     funding_recommendations |->
        generate_funding_recommendations(valuation, outcomes, target),
     comparable_case_count |-> Len(cases),
     confidence |-> "", error |-> ""]

ValuationTargets ==
    { ValuationTarget(ct, "None", amt) :
        ct \in {"Auto Accident", "Slip and Fall", "Medical Malpractice",
                "Workers Compensation", "Product Liability", "Dog Bite", "None"},
        amt \in {5000, 10000} }
    \cup { ValuationTarget("None", "Slip and Fall", 5000), NoneObj }

\* comparable lists whose estimated range has rational ends or an unclamped
\* lower end; the fifth has mean 4500 and standard deviation 5500
ValuationCaseLists ==
    { <<>>,
      <<OutcomeCase(10000, 12, "favorable", 800)>>,
      <<OutcomeCase(1000, 12, "settled", 800), OutcomeCase(3000, 24, "Settled", 600)>>,
      <<OutcomeCase(0, 0, "dismissed", 400)>>,
      <<OutcomeCase(10000, 12, "favorable", 800), OutcomeCase(0, 0, "dismissed", 400)>>,
      <<OutcomeCase(1000, 12, "settled", 800), OutcomeCase(1000, 12, "settled", 800),
        OutcomeCase(2000, 18, "settled", 700), OutcomeCase(14000, 30, "settled", 600)>>,
      <<OutcomeCase(1000, 12, "None", 800)>>,
      <<OutcomeCase(10000, 12, "favorable", 800),
        OutcomeCase(20000, 18, "dismissed", 700),
        OutcomeCase(30000, 36, "judgment_plaintiff", 500)>>,
      <<OutcomeCase(30000, 36, "dismissed", 500)>> }

InitValuation ==
    /\ task = "generate_case_valuation_report"
    /\ now = 0 /\ RepeatIdle
    /\ ai_calls = 0 /\ ai_last = "none"
    /\ FnIdle /\ SearchIdle /\ RiskIdle /\ UWIdle /\ OutcomeIdle
    /\ v_pc = "begin"
    /\ v_target \in ValuationTargets
    /\ v_cases \in ValuationCaseLists
    /\ v_outcomes = NoDict /\ v_ai = NoDict /\ v_val = NoDict /\ v_report = NoDict

\* entry: the empty-list return, or on to the outcome analysis
ValuationBegin ==
    /\ v_pc = "begin"
    /\ IF v_cases = <<>>
       THEN v_report' = no_comparables_report /\ v_pc' = "done"
       ELSE v_report' = v_report /\ v_pc' = "outcomes"
    /\ UNCHANGED <<task, now, repeatVars, ai_calls, ai_last, fnVars, searchVars, riskVars, uwVars,
                   outcomeVars, v_target, v_cases, v_outcomes, v_ai, v_val>>

\* analyze_comparable_case_outcomes: its except result, or the trends call
\* and the assembled analysis
ValuationOutcomes ==
    /\ v_pc = "outcomes"
    /\ IF OutcomeError(v_cases) # ""
       THEN /\ v_outcomes' = OutcomeErrorResult(OutcomeError(v_cases))
            /\ UNCHANGED <<ai_calls, ai_last>>
       ELSE \E resp \in TrendsResponses :
            /\ ai_calls' = ai_calls + 1 /\ ai_last' = resp.kind
            /\ v_outcomes' = outcome_analysis(v_cases, analyze_outcome_trends(resp))
    /\ v_pc' = "ai"
    /\ UNCHANGED <<task, now, repeatVars, fnVars, searchVars, riskVars, uwVars, outcomeVars,
                   v_target, v_cases, v_ai, v_val, v_report>>

\* _ai_valuation_analysis, then the synchronous rest of the report
ValuationAI ==
    /\ v_pc = "ai"
    /\ IF AIValuationError(v_target) # ""
       THEN /\ v_report' = valuation_error_report(AIValuationError(v_target))
            /\ UNCHANGED <<ai_calls, ai_last, v_ai, v_val>>
       ELSE \E resp \in AIValuationResponses :
            LET ai        == ai_valuation_analysis(resp)
                valuation == calculate_risk_adjusted_valuation(v_outcomes, ai, v_target)
            IN  /\ ai_calls' = ai_calls + 1 /\ ai_last' = resp.kind
                /\ v_ai' = ai
                /\ v_val' = valuation
                /\ v_report' = valuation_report(valuation, v_outcomes, ai, v_target,
                                                v_cases)
    /\ v_pc' = "done"
    /\ UNCHANGED <<task, now, repeatVars, fnVars, searchVars, riskVars, uwVars, outcomeVars,
                   v_target, v_cases, v_outcomes>>

NextValuation == ValuationBegin \/ ValuationOutcomes \/ ValuationAI

SpecValuation == InitValuation /\ [][NextValuation]_vars

(***************************************************************************)
(* The three entry points of ComparableCaseAgent: search, outcome          *)
(* analysis and valuation report, each on its own inputs                   *)
(***************************************************************************)
InitPipeline == InitSearch \/ InitOutcome \/ InitValuation

NextPipeline == NextSearch \/ NextOutcome \/ NextValuation

SpecPipeline == InitPipeline /\ [][NextPipeline]_vars

(***************************************************************************)
(* Plaintiff records (camelCase keys of the API layer)                     *)
(***************************************************************************)
\* contactFields counts how many of firstName, lastName, phone, email and
\* address are provided; caseType "None" means the key is absent
PlaintiffRecord(ct, amt, amtNone, date, contacts, notes) ==
    [has |-> {"requestedAmount", "incidentDate", "caseNotes"}
             \cup (IF ct = "None" THEN {} ELSE {"caseType"}),
     none |-> IF amtNone THEN {"requestedAmount"} ELSE {},
     caseType |-> ct, requestedAmount |-> amt, incidentDate |-> date,
     contactFields |-> contacts, caseNotes |-> notes]

(***************************************************************************)
(* RiskScoringAgent                                                        *)
(***************************************************************************)
MaxAIScores == 2

AIScoreValues == {0, 42, 65, 100}

\* risk_factors["case_type_risk"].get(case_type, 0.5) * 100
case_type_risk(ct) ==
    CASE ct = "Auto Accident" -> 30
      [] ct = "Slip and Fall" -> 50
      [] ct = "Medical Malpractice" -> 70
      [] ct = "Workers Compensation" -> 40
      [] ct = "Product Liability" -> 60
      [] ct = "Other" -> 50
      [] OTHER -> 50

\* mutant: an unspecified amount scored as a low amount
financial_risk_zero_low(amt) ==
    IF amt < 5000 THEN 30
    ELSE IF amt < 25000 THEN 50
    ELSE IF amt < 100000 THEN 70
    ELSE 85

\* staircase on requested_amount
financial_risk(amt) ==
    IF amt = 0 THEN 70
    ELSE IF amt < 5000 THEN 30
    ELSE IF amt < 25000 THEN 50
    ELSE IF amt < 100000 THEN 70
    ELSE 85

\* staircase on days since the incident
time_risk(date, today) ==
    IF date.kind = "none" THEN 65
    ELSE IF date.kind = "badstr" THEN 60
    ELSE LET days == today - date.day IN
         IF days < 30 THEN 40
         ELSE IF days < 180 THEN 30
         ELSE IF days < 365 THEN 50
         ELSE IF days < 730 THEN 70
         ELSE 85

\* number of the six required fields that are provided
provided_fields(p) ==
    p.contactFields + (IF "caseType" \in p.has THEN 1 ELSE 0)

\* information_completeness_risk, times 6: (1 - provided / 6) * 100
info_risk6(p) == (6 - provided_fields(p)) * 100

\* _calculate_rule_based_risk: the four sub-scores (info in sixths)
calculate_rule_based_risk(p, today) ==
    [case_type_risk |-> case_type_risk(Get(p, "caseType", "Other")),
     financial_risk |-> financial_risk(Get(p, "requestedAmount", 0)),
     time_risk      |-> time_risk(p.incidentDate, today),
     info_risk6     |-> info_risk6(p)]

\* "requested_amount < threshold" raises TypeError on None
RuleBasedRaises(p) == IsNone(p, "requestedAmount")

\* six times the sum of the four rule-based sub-scores
RuleSum6(rule) ==
    6 * (rule.case_type_risk + rule.financial_risk + rule.time_risk)
    + rule.info_risk6

\* ai_average as a fraction: sum / len, or 50 when there is no sub-score
AIAverage(scores) ==
    IF scores = <<>> THEN <<50, 1>> ELSE <<SumSeq(scores), Len(scores)>>

\* mutant: the weights of the two averages swapped (0.4 AI, 0.6 rules)
OverallFractionSwapped(scores, rule) ==
    LET a == AIAverage(scores)
    IN  <<96 * a[1] + 6 * a[2] * RuleSum6(rule), 240 * a[2]>>

\* overall_score = ai_average * 0.6 + rule_average * 0.4, as a fraction:
\* (144 * S + 4 * n * RuleSum6) / (240 * n)
OverallFraction(scores, rule) ==
    LET a == AIAverage(scores)
    IN  <<144 * a[1] + 4 * a[2] * RuleSum6(rule), 240 * a[2]>>

LowRecommendations ==
    <<"Proceed with standard processing",
      "Monitor for any changes in case status",
      "Consider expedited review for quick approval">>

MediumRecommendations ==
    <<"Proceed with enhanced due diligence",
      "Request additional documentation",
      "Monitor case progress closely">>

HighRecommendations ==
    <<"Require additional approvals",
      "Consider reduced funding amount",
      "Implement enhanced monitoring",
      "Request legal opinion on case strength">>

VeryHighRecommendations ==
    <<"Consider declining funding",
      "If proceeding, require senior management approval",
      "Significantly reduce funding amount",
      "Implement maximum monitoring protocols">>

\* the risk level of the (unrounded) overall score o = <<num, den>>
RiskLevelOf(o) ==
    IF o[1] <= 30 * o[2] THEN "LOW"
    ELSE IF o[1] <= 50 * o[2] THEN "MEDIUM"
    ELSE IF o[1] <= 70 * o[2] THEN "HIGH"
    ELSE "VERY HIGH"

CannedRecommendations(level) ==
    CASE level = "LOW" -> LowRecommendations
      [] level = "MEDIUM" -> MediumRecommendations
      [] level = "HIGH" -> HighRecommendations
      [] OTHER -> VeryHighRecommendations

\* _combine_risk_assessments; ai is the parsed assessment
\* [isdict, scores, numeric]; scores in tenths in the result
combine_risk_assessments(ai, rule) ==
    LET scores == IF ai.isdict THEN ai.scores ELSE <<>> IN
    IF ~ai.numeric /\ scores # <<>>
    THEN \* sum() raises TypeError: the except branch
         [overall_score |-> 500, risk_level |-> "MEDIUM",
          recommendations |-> <<"Manual review required due to analysis error">>,
          confidence |-> 30]
    ELSE LET o == OverallFraction(scores, rule) IN
         [overall_score |-> RoundDiv(10 * o[1], o[2]),
          risk_level |-> RiskLevelOf(o),
          recommendations |-> CannedRecommendations(RiskLevelOf(o)),
          confidence |-> Min2(100, 50 + 5 * Len(scores) + 3 * 4)]

\* _default_risk_assessment
default_risk_assessment ==
    [has |-> {"risk_score"},
     risk_score |-> 500, risk_level |-> "MEDIUM",
     recommendations |-> <<"Manual underwriter review required">>,
     confidence_score |-> 20, rule_based_factors |-> NoDict, ai_scores |-> <<>>,
     via |-> "default"]

\* _default_ai_assessment: a dictionary without any sub-score
default_ai_assessment == [isdict |-> TRUE, scores |-> <<>>, numeric |-> TRUE]

\* What generate_content + json.loads yield for the risk prompt
RiskResponses ==
    { [kind |-> "ok", isdict |-> TRUE, scores |-> sc, numeric |-> TRUE] :
        sc \in UNION { [1..n -> AIScoreValues] : n \in 0..MaxAIScores } }
    \cup { [kind |-> "ok", isdict |-> FALSE, scores |-> <<>>, numeric |-> TRUE],
           [kind |-> "ok", isdict |-> TRUE, scores |-> <<42>>, numeric |-> FALSE] }
    \cup { [kind |-> k, isdict |-> FALSE, scores |-> <<>>, numeric |-> TRUE] :
             k \in {"error", "malformed", "timeout"} }

\* mutant: a failed call is passed on instead of replaced by the default
ai_risk_assessment_no_fallback(resp) ==
    [isdict |-> resp.isdict, scores |-> resp.scores, numeric |-> resp.numeric]

\* _ai_risk_assessment, given the service's response
ai_risk_assessment(resp) ==
    IF resp.kind = "ok"
    THEN [isdict |-> resp.isdict, scores |-> resp.scores, numeric |-> resp.numeric]
    ELSE default_ai_assessment

RiskPlaintiffs ==
    { PlaintiffRecord(ct, amt, FALSE, date, contacts, "") :
        ct \in {"Auto Accident", "Medical Malpractice", "None"},
        amt \in {0, 1000, 10000, 50000, 100000},
        date \in {NoDate, [kind |-> "badstr", day |-> 0], DateTimeObj(0 - 400)}
                 \cup { IsoDate(0 - d) : d \in {10, 100, 200, 400, 800} },
        contacts \in {0, 3, 5} }
    \cup { PlaintiffRecord("Auto Accident", 0, TRUE, NoDate, 5, "") }

InitRisk ==
    /\ task = "analyze_comprehensive_risk"
    /\ now = 0 /\ RepeatIdle
    /\ ai_calls = 0 /\ ai_last = "none"
    /\ FnIdle /\ SearchIdle /\ UWIdle /\ OutcomeIdle /\ ValuationIdle
    /\ r_pc = "begin"
    /\ r_plaintiff \in RiskPlaintiffs
    /\ r_ai = NoDict
    /\ r_result = NoDict

\* _prepare_analysis_data and the prompt of _ai_risk_assessment:
\* json.dumps(analysis_data) raises on a datetime incident date, which the
\* outer except turns into the default assessment
RiskPrepare ==
    /\ r_pc = "begin"
    /\ IF r_plaintiff.incidentDate.kind = "datetime"
       THEN r_result' = default_risk_assessment /\ r_pc' = "done"
       ELSE r_result' = r_result /\ r_pc' = "ai"
    /\ UNCHANGED <<task, now, repeatVars, outcomeVars, valuationVars, ai_calls, ai_last,
                   fnVars, searchVars, uwVars, r_plaintiff, r_ai>>

\* the service answers; rule-based scoring, combination and the report follow
RiskAssess ==
    /\ r_pc = "ai"
    /\ \E resp \in RiskResponses :
        LET ai   == ai_risk_assessment(resp)
            rule == calculate_rule_based_risk(r_plaintiff, now)
            c    == combine_risk_assessments(ai, rule)
        IN  /\ ai_calls' = ai_calls + 1 /\ ai_last' = resp.kind
            /\ r_ai' = ai
            /\ r_result' =
                 IF RuleBasedRaises(r_plaintiff)
                 THEN default_risk_assessment
                 ELSE [has |-> {"risk_score"},
                       risk_score |-> c.overall_score,
                       risk_level |-> c.risk_level,
                       recommendations |-> c.recommendations,
                       confidence_score |-> c.confidence,
                       rule_based_factors |-> rule,
                       ai_scores |-> IF ai.isdict THEN ai.scores ELSE <<>>,
                       via |-> IF c.confidence = 30 THEN "combine_except"
                               ELSE "combined"]
    /\ r_pc' = "done"
    /\ UNCHANGED <<task, now, repeatVars, outcomeVars, valuationVars, fnVars, searchVars, uwVars, r_plaintiff>>

NextRisk == RiskPrepare \/ RiskAssess

SpecRisk == InitRisk /\ [][NextRisk]_vars

(***************************************************************************)
(* UnderwritingAssistantAgent                                              *)
(* liability and risk scores in tenths, weighted overall in thousandths,   *)
(* case values in cents, funding amounts in 1/2000 dollar                  *)
(***************************************************************************)
\* mutant: the staircase reversed, an older case scoring higher
score_case_age_older_better(days) ==
    IF days <= 180 THEN 20
    ELSE IF days <= 365 THEN 40
    ELSE IF days <= 730 THEN 60
    ELSE IF days <= 1095 THEN 80
    ELSE 90

\* _score_case_age
score_case_age(days) ==
    IF days <= 180 THEN 90
    ELSE IF days <= 365 THEN 80
    ELSE IF days <= 730 THEN 60
    ELSE IF days <= 1095 THEN 40
    ELSE 20

\* _categorize_case_age
categorize_case_age(days) ==
    IF days <= 90 THEN "Fresh"
    ELSE IF days <= 365 THEN "Recent"
    ELSE IF days <= 730 THEN "Moderate"
    ELSE "Aged"

\* mutant: days_remaining reported without the floor at 0
assess_statute_risk_unclamped(ct, days) ==
    LET limit == CASE ct = "Medical Malpractice" -> 730
                   [] ct = "Workers Compensation" -> 365
                   [] OTHER -> 1095
        remaining == limit - days
    IN  [risk_level |-> IF remaining <= 0 THEN "CRITICAL"
                        ELSE IF remaining <= 90 THEN "HIGH"
                        ELSE IF remaining <= 180 THEN "MEDIUM"
                        ELSE "LOW",
         risk_score |-> IF remaining <= 0 THEN 100
                        ELSE IF remaining <= 90 THEN 80
                        ELSE IF remaining <= 180 THEN 60
                        ELSE 20,
         days_remaining |-> remaining,
         statute_limit_days |-> limit]

\* _assess_statute_risk
assess_statute_risk(ct, days) ==
    LET limit == CASE ct = "Medical Malpractice" -> 730
                   [] ct = "Workers Compensation" -> 365
                   [] OTHER -> 1095
        remaining == limit - days
    IN  [risk_level |-> IF remaining <= 0 THEN "CRITICAL"
                        ELSE IF remaining <= 90 THEN "HIGH"
                        ELSE IF remaining <= 180 THEN "MEDIUM"
                        ELSE "LOW",
         risk_score |-> IF remaining <= 0 THEN 100
                        ELSE IF remaining <= 90 THEN 80
                        ELSE IF remaining <= 180 THEN 60
                        ELSE 20,
         days_remaining |-> Max2(0, remaining),
         statute_limit_days |-> limit]

\* case_age_days of _analyze_case_fundamentals: 0 unless the date parses
fundamentals_case_age(date, today) ==
    IF date.kind \in {"none", "badstr"} THEN 0 ELSE today - date.day

\* What generate_content + json.loads yield for the case-notes prompt
NotesResponses == { [kind |-> k] : k \in {"ok", "error", "malformed", "timeout"} }

\* _analyze_case_notes for non-empty notes: the service's analysis, or the
\* fixed fallback on any failure
analyze_case_notes(resp) == IF resp.kind = "ok" THEN "ai" ELSE "default"

\* _analyze_case_fundamentals; notes is how notes_analysis was obtained
analyze_case_fundamentals(p, notes, today) ==
    LET ct   == Get(p, "caseType", "Other")
        days == fundamentals_case_age(p.incidentDate, today)
    IN  [has |-> {"case_age_days"},
         case_type |-> ct,
         case_age_days |-> days,
         case_age_category |-> categorize_case_age(days),
         notes_analysis |-> notes,
         missing_documents |->
            <<"retainer_agreement", "incident_report", "medical_records">>,
         statute_of_limitations_risk |-> assess_statute_risk(ct, days)]

\* base_scores of _rule_based_liability_score
liability_base_score(ct) ==
    CASE ct = "Auto Accident" -> 70
      [] ct = "Slip and Fall" -> 55
      [] ct = "Medical Malpractice" -> 45
      [] ct = "Workers Compensation" -> 75
      [] ct = "Product Liability" -> 60
      [] ct = "Other" -> 50
      [] OTHER -> 50

\* "if risk_analysis": None and the empty dictionary are falsy
Truthy(d) == d # NoneObj /\ d.has # {}

\* _rule_based_liability_score, in hundredths
rule_based_liability_score(ct, risk) ==
    LET base == 100 * liability_base_score(ct)
        adj  == IF Truthy(risk) THEN (500 - Get(risk, "risk_score", 500)) * 3 ELSE 0
    IN  Max2(0, Min2(10000, base + adj))

\* What generate_content + json.loads yield for the liability prompt
LiabilityResponses ==
    { [kind |-> "ok", isdict |-> TRUE, has |-> {"score"}, numeric |-> TRUE,
       score |-> sc] : sc \in {25, 50, 89} }
    \cup { [kind |-> "ok", isdict |-> TRUE, has |-> {}, numeric |-> TRUE, score |-> 0],
           [kind |-> "ok", isdict |-> FALSE, has |-> {}, numeric |-> TRUE, score |-> 0],
           [kind |-> "ok", isdict |-> TRUE, has |-> {"score"}, numeric |-> FALSE,
            score |-> 0] }
    \cup { [kind |-> k, isdict |-> FALSE, has |-> {}, numeric |-> TRUE, score |-> 0] :
             k \in {"error", "malformed", "timeout"} }

\* _ai_liability_analysis, given the service's response
ai_liability_analysis(resp) ==
    IF resp.kind = "ok"
    THEN [isdict |-> resp.isdict, has |-> resp.has, numeric |-> resp.numeric,
          score |-> resp.score]
    ELSE [isdict |-> TRUE, has |-> {"score"}, numeric |-> TRUE, score |-> 50]

\* the exception _evaluate_liability_prospects raises on the assessment, if any
LiabilityError(ai) ==
    IF ~ai.isdict THEN "'list' object has no attribute 'get'"
    ELSE IF "score" \in ai.has /\ ~ai.numeric
         THEN "can't multiply sequence by non-int of type 'float'"
    ELSE ""

\* _evaluate_liability_prospects: round(ai * 0.7 + rule * 0.3, 1), in tenths
evaluate_liability_prospects(p, risk, ai) ==
    LET ct   == Get(p, "caseType", "Other")
        rule == rule_based_liability_score(ct, risk)
    IN  [has |-> {"liability_score"},
         liability_score |-> RoundDiv(700 * Get(ai, "score", 50) + 3 * rule, 100)]

\* What generate_content + json.loads yield for the valuation prompt
ValuationResponses ==
    { [kind |-> "ok", isdict |-> TRUE, has |-> {"estimated_value"},
       estimated_value |-> v] : v \in {0, 30000, 200000} }
    \cup { [kind |-> "ok", isdict |-> FALSE, has |-> {}, estimated_value |-> 0] }
    \cup { [kind |-> k, isdict |-> FALSE, has |-> {}, estimated_value |-> 0] :
             k \in {"error", "malformed", "timeout"} }

\* _ai_case_valuation, given the service's response
ai_case_valuation(resp) ==
    IF resp.kind = "ok"
    THEN [isdict |-> resp.isdict, has |-> resp.has,
          estimated_value |-> resp.estimated_value]
    ELSE [isdict |-> TRUE, has |-> {"estimated_value"}, estimated_value |-> 50000]

\* settlement values > 0 of the comparable cases of the same type
RECURSIVE RelevantValues(_, _)
RelevantValues(ct, cases) ==
    IF cases = <<>> THEN <<>>
    ELSE LET c == Head(cases) IN
         (IF c.case_type = ct /\ c.settlement_value > 0
          THEN <<c.settlement_value>> ELSE <<>>)
         \o RelevantValues(ct, Tail(cases))

\* _combine_valuations over _analyze_comparable_cases: estimated value in cents
combine_valuations(ai, ct, cases) ==
    LET ai_value == Get(ai, "estimated_value", 50000)
        values   == RelevantValues(ct, cases)
    IN  IF values # <<>>
        THEN RoundDiv(60 * ai_value * Len(values) + 40 * SumSeq(values), Len(values))
        ELSE 100 * ai_value

\* _estimate_case_value
estimate_case_value(p, ai, cases) ==
    [has |-> {"estimated_value"},
     estimated_value |-> combine_valuations(ai, Get(p, "caseType", "Other"), cases)]

ValuationError(ai) ==
    IF ~ai.isdict THEN "'list' object has no attribute 'get'" ELSE ""

\* _assess_law_firm_quality
assess_law_firm_quality(firm) ==
    IF ~Truthy(firm) THEN 50
    ELSE Min2(100,
           50
           + (IF firm.employees > 10 THEN 10 ELSE IF firm.employees > 5 THEN 5 ELSE 0)
           + (IF firm.contacts >= 3 THEN 5 ELSE 0)
           + (IF firm.website THEN 5 ELSE 0))

LawFirm(employees, contacts, website) ==
    [has |-> {"name"}, none |-> {}, employees |-> employees, contacts |-> contacts,
     website |-> website]

\* mutant: the cap at the maximum funding ratio is dropped
calculate_risk_adjusted_amount_uncapped(requested, risk10, value_cents) ==
    requested * Max2(600, 2000 - risk10)

\* _calculate_risk_adjusted_amount, in 1/2000 dollar
calculate_risk_adjusted_amount(requested, risk10, value_cents) ==
    Min2(requested * Max2(600, 2000 - risk10), 3 * value_cents)

\* the exception _evaluate_financial_factors raises, if any
FinancialError(p, valuation, risk) ==
    IF risk = NoneObj THEN "'NoneType' object has no attribute 'get'"
    ELSE IF IsNone(p, "requestedAmount")
    THEN IF Get(valuation, "estimated_value", 0) > 0
         THEN "unsupported operand type(s) for /: 'NoneType' and 'float'"
         ELSE "unsupported operand type(s) for *: 'NoneType' and 'float'"
    ELSE ""

\* _evaluate_financial_factors
evaluate_financial_factors(p, valuation, risk) ==
    LET requested == Get(p, "requestedAmount", 0)
        value     == Get(valuation, "estimated_value", 0)
        risk10    == Get(risk, "risk_score", 500)
    IN  [has |-> {"funding_ratio_acceptable", "requested_amount",
                  "risk_adjusted_amount"},
         requested_amount |-> requested,
         estimated_case_value |-> value,
         funding_ratio_acceptable |->
            IF value > 0 THEN 10000 * requested <= 15 * value ELSE FALSE,
         risk_adjusted_amount |->
            calculate_risk_adjusted_amount(requested, risk10, value)]

\* the weighted overall score, in thousandths
OverallScore(scores) ==
    30 * scores.liability + 25 * scores.risk + 200 * scores.financial
    + 150 * scores.law_firm + 100 * scores.case_age

\* mutant: ">" instead of ">=" at the thresholds
DecisionOfStrict(overall) ==
    IF overall > 75000 THEN [decision |-> "APPROVE", confidence |-> 85]
    ELSE IF overall > 60000 THEN [decision |-> "CONDITIONAL", confidence |-> 70]
    ELSE IF overall > 40000 THEN [decision |-> "NEEDS_REVIEW", confidence |-> 60]
    ELSE [decision |-> "DECLINE", confidence |-> 80]

\* the decision thresholds; confidence in hundredths
DecisionOf(overall) ==
    IF overall >= 75000 THEN [decision |-> "APPROVE", confidence |-> 85]
    ELSE IF overall >= 60000 THEN [decision |-> "CONDITIONAL", confidence |-> 70]
    ELSE IF overall >= 40000 THEN [decision |-> "NEEDS_REVIEW", confidence |-> 60]
    ELSE [decision |-> "DECLINE", confidence |-> 80]

\* _generate_reasoning
generate_reasoning(scores, fund, financial, risk) ==
    LET risk10 == Get(risk, "risk_score", 500)
        age    == Get(fund, "case_age_days", 0)
    IN  <<IF scores.liability >= 700
          THEN "Strong liability prospects based on case analysis"
          ELSE IF scores.liability >= 500
          THEN "Moderate liability prospects - case has merit"
          ELSE "Weak liability prospects - significant concerns identified">>
        \o <<IF risk10 <= 400 THEN "Low risk profile - good funding candidate"
             ELSE IF risk10 <= 600
             THEN "Moderate risk profile - acceptable with monitoring"
             ELSE "High risk profile - requires careful consideration">>
        \o <<IF financial.funding_ratio_acceptable
             THEN "Requested amount within acceptable funding parameters"
             ELSE "Requested amount exceeds recommended funding ratio">>
        \o (IF age > 730 THEN <<"Case age raises statute of limitations concerns">>
            ELSE IF age < 30 THEN <<"Recent case with fresh evidence">>
            ELSE <<>>)

\* a condition, with the amount its text quotes (NoAmount if none)
Condition(text, amount) == [text |-> text, amount |-> amount]

\* mutant: enhanced monitoring already above a risk score of 50
generate_conditions_monitoring_above_50(decision, scores, financial, risk) ==
    IF decision # "CONDITIONAL" THEN <<>>
    ELSE (IF ~financial.funding_ratio_acceptable
          THEN <<Condition("Reduce funding amount to",
                           financial.risk_adjusted_amount)>>
          ELSE <<>>)
         \o (IF Get(risk, "risk_score", 500) > 500
             THEN <<Condition("Enhanced monitoring and progress reporting required",
                              NoAmount)>>
             ELSE <<>>)
         \o (IF scores.liability < 600
             THEN <<Condition("Additional liability documentation required",
                              NoAmount)>>
             ELSE <<>>)

\* _generate_conditions
generate_conditions(decision, scores, financial, risk) ==
    IF decision # "CONDITIONAL" THEN <<>>
    ELSE (IF ~financial.funding_ratio_acceptable
          THEN <<Condition("Reduce funding amount to",
                           financial.risk_adjusted_amount)>>
          ELSE <<>>)
         \o (IF Get(risk, "risk_score", 500) > 600
             THEN <<Condition("Enhanced monitoring and progress reporting required",
                              NoAmount)>>
             ELSE <<>>)
         \o (IF scores.liability < 600
             THEN <<Condition("Additional liability documentation required",
                              NoAmount)>>
             ELSE <<>>)

\* _identify_additional_info_needed
identify_additional_info_needed(fund, liab, decision) ==
    fund.missing_documents
    \o (IF Get(liab, "liability_score", 500) < 600
        THEN <<"Additional evidence of defendant liability">> ELSE <<>>)
    \o (IF decision \in {"NEEDS_REVIEW", "CONDITIONAL"}
        THEN <<"Updated case status and settlement discussions">> ELSE <<>>)

\* _suggest_risk_mitigation
suggest_risk_mitigation(risk, decision) ==
    LET risk10 == Get(risk, "risk_score", 500) IN
    (IF risk10 > 500 THEN <<"Regular case progress monitoring">> ELSE <<>>)
    \o (IF risk10 > 700
        THEN <<"Quarterly attorney communication",
               "Medical record updates as available",
               "Settlement negotiation status updates">>
        ELSE <<>>)
    \o (IF decision = "CONDITIONAL"
        THEN <<"Approval contingent on meeting specified conditions">> ELSE <<>>)

\* _determine_recommended_amount, in 1/2000 dollar
determine_recommended_amount(decision, financial) ==
    IF decision \in {"DECLINE", "NEEDS_REVIEW"} THEN NoAmount
    ELSE IF financial.risk_adjusted_amount > 0
         THEN Min2(2000 * financial.requested_amount, financial.risk_adjusted_amount)
         ELSE 2000 * financial.requested_amount

\* the five factor scores of _generate_underwriting_recommendation
FactorScores(fund, liab, lawfirm_quality, financial, risk) ==
    [liability |-> Get(liab, "liability_score", 500),
     risk      |-> 1000 - Get(risk, "risk_score", 500),
     financial |-> IF financial.funding_ratio_acceptable THEN 100 ELSE 30,
     law_firm  |-> lawfirm_quality,
     case_age  |-> score_case_age(Get(fund, "case_age_days", 0))]

\* _generate_underwriting_recommendation
generate_underwriting_recommendation(fund, liab, lawfirm_quality, financial, risk) ==
    LET scores == FactorScores(fund, liab, lawfirm_quality, financial, risk)
        d      == DecisionOf(OverallScore(scores))
    IN  [decision |-> d.decision,
         confidence |-> d.confidence,
         reasoning |-> generate_reasoning(scores, fund, financial, risk),
         conditions |-> generate_conditions(d.decision, scores, financial, risk),
         additional_info_needed |->
            identify_additional_info_needed(fund, liab, d.decision),
         recommended_amount |-> determine_recommended_amount(d.decision, financial),
         risk_mitigation |-> suggest_risk_mitigation(risk, d.decision)]

\* mutant: the error recommendation declines
create_error_recommendation_decline(msg) ==
    [decision |-> "DECLINE",
     confidence |-> 0,
     reasoning |-> <<[text |-> "Analysis error: ", message |-> msg]>>,
     conditions |-> <<Condition("Manual underwriter review required", NoAmount)>>,
     additional_info_needed |-> <<"Complete case file review">>,
     recommended_amount |-> NoAmount,
     risk_mitigation |-> <<"Comprehensive manual analysis required">>]

\* _create_error_recommendation; the single reasoning entry is
\* "Analysis error: " followed by the message
create_error_recommendation(msg) ==
    [decision |-> "NEEDS_REVIEW",
     confidence |-> 0,
     reasoning |-> <<[text |-> "Analysis error: ", message |-> msg]>>,
     conditions |-> <<Condition("Manual underwriter review required", NoAmount)>>,
     additional_info_needed |-> <<"Complete case file review">>,
     recommended_amount |-> NoAmount,
     risk_mitigation |-> <<"Comprehensive manual analysis required">>]

\* comprehensive_underwriting_analysis after the last await: law firm,
\* financial factors and the recommendation, or the error recommendation
finish_underwriting(p, fund, liab, valuation, firm, risk) ==
    IF FinancialError(p, valuation, risk) # ""
    THEN create_error_recommendation(FinancialError(p, valuation, risk))
    ELSE generate_underwriting_recommendation(
            fund, liab, assess_law_firm_quality(firm),
            evaluate_financial_factors(p, valuation, risk), risk)

RiskAnalyses ==
    {NoneObj, NoDict, [has |-> {"risk_level"}, none |-> {}, risk_score |-> 0]}
    \cup { [has |-> {"risk_score", "risk_level"}, none |-> {}, risk_score |-> r] :
             r \in {200, 560, 900, 1500} }

LawFirms == {NoneObj, LawFirm(11, 0, FALSE), LawFirm(11, 3, FALSE), LawFirm(11, 4, TRUE)}

Comparable(ct, value) == [case_type |-> ct, settlement_value |-> value]

ComparableLists ==
    { <<>>,
      <<Comparable("Other", 40000), Comparable("Other", 100000)>>,
      <<Comparable("Auto Accident", 100000), Comparable("Other", 0)>> }

UWPlaintiffs ==
    { PlaintiffRecord(ct, amt, FALSE, date, 0, notes) :
        ct \in {"Other", "Medical Malpractice"},
        amt \in {0, 5000, 20000},
        date \in {NoDate, [kind |-> "badstr", day |-> 0]}
                 \cup { IsoDate(0 - d) : d \in {100, 400, 800, 1200} },
        notes \in {"", "rear-end collision"} }
    \cup { PlaintiffRecord("None", 5000, FALSE, IsoDate(0 - 100), 0, ""),
           PlaintiffRecord("Other", 0, TRUE, IsoDate(0 - 100), 0, ""),
           NoneObj }
    \cup { PlaintiffRecord("Workers Compensation", 5000, FALSE, IsoDate(0 - d), 0, "") :
             d \in {100, 185, 200, 275, 300, 365, 400} }

InitUW ==
    /\ task = "comprehensive_underwriting_analysis"
    /\ now = 0 /\ RepeatIdle
    /\ ai_calls = 0 /\ ai_last = "none"
    /\ FnIdle /\ SearchIdle /\ RiskIdle /\ OutcomeIdle /\ ValuationIdle
    /\ u_pc = "begin"
    /\ u_plaintiff \in UWPlaintiffs
    /\ u_risk \in RiskAnalyses
    /\ u_lawfirm \in LawFirms
    /\ u_comparables \in ComparableLists
    /\ u_fund = NoDict /\ u_liab = NoDict /\ u_value = NoDict
    /\ u_rec = NoDict /\ u_error = "" /\ u_fin = NoDict

\* the outer except: the exception becomes the error recommendation
UWFail(msg) ==
    /\ u_error' = msg
    /\ u_rec' = create_error_recommendation(msg)
    /\ u_fin' = u_fin
    /\ u_pc' = "done"

\* _analyze_case_fundamentals; _analyze_case_notes calls the service only
\* for non-empty notes and falls back to its default on any failure
UWFundamentals ==
    /\ u_pc = "begin"
    /\ IF u_plaintiff = NoneObj
       THEN /\ UWFail("'NoneType' object has no attribute 'get'")
            /\ UNCHANGED <<ai_calls, ai_last, u_fund>>
       ELSE IF Get(u_plaintiff, "caseNotes", "") = ""
       THEN /\ u_fund' = analyze_case_fundamentals(u_plaintiff, "none", now)
            /\ u_pc' = "liability"
            /\ UNCHANGED <<ai_calls, ai_last, u_rec, u_error, u_fin>>
       ELSE \E resp \in NotesResponses :
            /\ u_fund' = analyze_case_fundamentals(
                            u_plaintiff, analyze_case_notes(resp), now)
            /\ ai_calls' = ai_calls + 1 /\ ai_last' = resp.kind
            /\ u_pc' = "liability"
            /\ UNCHANGED <<u_rec, u_error, u_fin>>
    /\ UNCHANGED <<task, now, repeatVars, outcomeVars, valuationVars, fnVars, searchVars, riskVars, u_plaintiff, u_risk,
                   u_lawfirm, u_comparables, u_liab, u_value>>

\* _evaluate_liability_prospects
UWLiability ==
    /\ u_pc = "liability"
    /\ \E resp \in LiabilityResponses :
        LET ai == ai_liability_analysis(resp) IN
        /\ ai_calls' = ai_calls + 1 /\ ai_last' = resp.kind
        /\ IF LiabilityError(ai) # ""
           THEN UWFail(LiabilityError(ai)) /\ UNCHANGED u_liab
           ELSE /\ u_liab' = evaluate_liability_prospects(u_plaintiff, u_risk, ai)
                /\ u_pc' = "valuation"
                /\ UNCHANGED <<u_rec, u_error, u_fin>>
    /\ UNCHANGED <<task, now, repeatVars, outcomeVars, valuationVars, fnVars, searchVars, riskVars, u_plaintiff, u_risk,
                   u_lawfirm, u_comparables, u_fund, u_value>>

\* _estimate_case_value, then the synchronous rest of the analysis
UWValuation ==
    /\ u_pc = "valuation"
    /\ \E resp \in ValuationResponses :
        LET ai == ai_case_valuation(resp) IN
        /\ ai_calls' = ai_calls + 1 /\ ai_last' = resp.kind
        /\ IF ValuationError(ai) # ""
           THEN UWFail(ValuationError(ai)) /\ UNCHANGED u_value
           ELSE LET valuation == estimate_case_value(u_plaintiff, ai, u_comparables)
                IN  /\ u_value' = valuation
                    /\ u_rec' = finish_underwriting(u_plaintiff, u_fund, u_liab,
                                                    valuation, u_lawfirm, u_risk)
                    /\ u_error' = FinancialError(u_plaintiff, valuation, u_risk)
                    /\ u_fin' = IF FinancialError(u_plaintiff, valuation, u_risk) # ""
                               THEN NoDict
                               ELSE evaluate_financial_factors(u_plaintiff, valuation,
                                                               u_risk)
                    /\ u_pc' = "done"
    /\ UNCHANGED <<task, now, repeatVars, outcomeVars, valuationVars, fnVars, searchVars, riskVars, u_plaintiff, u_risk,
                   u_lawfirm, u_comparables, u_fund, u_liab>>

NextUW == UWFundamentals \/ UWLiability \/ UWValuation

SpecUW == InitUW /\ [][NextUW]_vars

(***************************************************************************)
(* SpecRepeat: the clock-reading scorers called twice on one record, the   *)
(* clock advancing between the calls                                       *)
(***************************************************************************)
\* days that pass between the two calls
ElapsedDays == {0, 1, 45, 400}

\* _calculate_case_age, _calculate_rule_based_risk and
\* _analyze_case_fundamentals with the case-age score of the decision, on
\* one record at one reading of the clock
score_record(p, today) ==
    LET fundamentals == analyze_case_fundamentals(p, "none", today)
    IN  [has |-> {"case_age_days", "rule_based_factors", "case_fundamentals",
                  "case_age_score"},
         none |-> {},
         case_age_days |-> calculate_case_age(p.incidentDate, today),
         rule_based_factors |-> calculate_rule_based_risk(p, today),
         case_fundamentals |-> fundamentals,
         case_age_score |-> score_case_age(fundamentals.case_age_days)]

RepeatPlaintiffs == { p \in RiskPlaintiffs : ~ RuleBasedRaises(p) }

InitRepeat ==
    /\ task = "score_twice"
    /\ now = 0
    /\ ai_calls = 0 /\ ai_last = "none"
    /\ FnIdle /\ SearchIdle /\ RiskIdle /\ UWIdle /\ OutcomeIdle /\ ValuationIdle
    /\ c_pc = "first"
    /\ c_case \in RepeatPlaintiffs
    /\ c_first = NoDict /\ c_second = NoDict

\* the first call
ScoreFirst ==
    /\ c_pc = "first"
    /\ c_first' = score_record(c_case, now)
    /\ c_pc' = "wait"
    /\ UNCHANGED <<task, now, ai_calls, ai_last, fnVars, searchVars, riskVars,
                   uwVars, outcomeVars, valuationVars, c_case, c_second>>

\* time passes between the calls
ClockAdvances ==
    /\ c_pc = "wait"
    /\ \E d \in ElapsedDays : now' = now + d
    /\ c_pc' = "second"
    /\ UNCHANGED <<task, ai_calls, ai_last, fnVars, searchVars, riskVars,
                   uwVars, outcomeVars, valuationVars, c_case, c_first, c_second>>

\* the second call, with the same record
ScoreSecond ==
    /\ c_pc = "second"
    /\ c_second' = score_record(c_case, now)
    /\ c_pc' = "done"
    /\ UNCHANGED <<task, now, ai_calls, ai_last, fnVars, searchVars, riskVars,
                   uwVars, outcomeVars, valuationVars, c_case, c_first>>

NextRepeat == ScoreFirst \/ ClockAdvances \/ ScoreSecond

SpecRepeat == InitRepeat /\ [][NextRepeat]_vars

(***************************************************************************)
(* Claims on _calculate_case_similarity (SpecSimFn)                        *)
(***************************************************************************)
SimDone == task = "calculate_case_similarity" /\ fn_result # NotYet

\* every key present with a value
FullySpecified(f) == f.has = FeatureKeys /\ f.none = {}

\* C4: for every pair of feature sets, also with missing, zero or negative
\* numeric fields, the similarity returned lies in [0, 1]
C4_SimilarityInUnitInterval ==
    SimDone => (fn_result >= 0 /\ fn_result <= 1000)

\* C4 witness: a pair with a negative funding amount on one side and a zero
\* one on the other and a missing severity label has been scored
C4_Witness ==
    /\ SimDone
    /\ "funding_amount" \in fn_target.has /\ fn_target.funding_amount < 0
    /\ "funding_amount" \in fn_historical.has /\ fn_historical.funding_amount = 0
    /\ fn_historical.none = {}
    /\ fn_result > 0

\* C5 as stated: similarity(x, x) = 1.0 for every fully-specified x
C5_SelfSimilarityIsOne ==
    (SimDone /\ fn_historical = fn_target /\ FullySpecified(fn_target))
        => fn_result = 1000

\* C5 amended: similarity(x, x) = 1.0 for every fully-specified x whose
\* damages_type set is non-empty; when the damages set is empty on both sides
\* the damages factor is 0.5 and similarity(x, x) = 0.975
C5_SelfSimilarityNonEmptyDamages ==
    (SimDone /\ fn_historical = fn_target /\ FullySpecified(fn_target))
        => IF fn_target.damages_type # {} THEN fn_result = 1000
           ELSE fn_result = 975

\* C5 witness: a fully-specified set with damages scored against itself
C5_Witness ==
    /\ SimDone /\ fn_historical = fn_target /\ FullySpecified(fn_target)
    /\ fn_target.damages_type # {}
    /\ fn_result = 1000

\* the ordinal of a feature set's injury_severity label (1..4) and of its
\* liability_clarity label (1..3), a missing or unrecognized label counting
\* as the middle of the scale
SeverityOrdinal(f) ==
    LET label == Get(f, "injury_severity", "moderate")
    IN  IF label = "minor" THEN 1 ELSE IF label = "severe" THEN 3
        ELSE IF label = "catastrophic" THEN 4 ELSE 2

LiabilityOrdinal(f) ==
    LET label == Get(f, "liability_clarity", "disputed")
    IN  IF label = "clear" THEN 3 ELSE IF label = "unclear" THEN 1 ELSE 2

\* the eight per-factor similarities of a pair as fractions
StatedFactors(t, h) ==
    LET a == Max2(1, Get(t, "funding_amount", 1))
        b == Max2(1, Get(h, "funding_amount", 1))
        td == Get(t, "damages_type", {})
        hd == Get(h, "damages_type", {})
    IN  [case_type |->
            IF Get(t, "case_type", "None") = Get(h, "case_type", "None")
            THEN <<1, 1>> ELSE <<0, 1>>,
         injury_severity |->
            Frac(3 - Abs(SeverityOrdinal(t) - SeverityOrdinal(h)), 3),
         liability_clarity |->
            Frac(2 - Abs(LiabilityOrdinal(t) - LiabilityOrdinal(h)), 2),
         jurisdiction |->
            IF Get(t, "jurisdiction", "None") = Get(h, "jurisdiction", "None")
            THEN <<1, 1>> ELSE <<3, 10>>,
         case_age |->
            Frac(Max2(0, 1095 - Abs(Get(t, "case_age_days", 365)
                                    - Get(h, "case_age_days", 365))), 1095),
         funding_amount |-> Frac(Min2(a, b), Max2(a, b)),
         law_firm_quality |->
            IF Get(t, "law_firm_id", "None") = Get(h, "law_firm_id", "None")
            THEN <<1, 1>> ELSE <<1, 2>>,
         damages_type |->
            IF td = {} /\ hd = {} THEN <<1, 2>>
            ELSE Frac(Cardinality(td \cap hd), Cardinality(td \cup hd))]

\* the sum of the factors weighted 0.25, 0.20, 0.15, 0.10, 0.10, 0.10, 0.05
\* and 0.05, rounded to 3 decimals (thousandths)
StatedSimilarityOf(t, h) ==
    LET f == StatedFactors(t, h)
        part(w, x) == FracMul(<<w, 100>>, x)
        sum == FracAdd(FracAdd(FracAdd(part(25, f.case_type),
                                       part(20, f.injury_severity)),
                               FracAdd(part(15, f.liability_clarity),
                                       part(10, f.jurisdiction))),
                       FracAdd(FracAdd(part(10, f.case_age),
                                       part(10, f.funding_amount)),
                               FracAdd(part(5, f.law_firm_quality),
                                       part(5, f.damages_type))))
    IN  RoundFrac(sum, 1000)

StatedSimilarity == StatedSimilarityOf(fn_target, fn_historical)

\* the pair was scored without a None numeric field (no exception)
SimScored ==
    /\ SimDone
    /\ ~ IsNone(fn_target, "case_age_days") /\ ~ IsNone(fn_historical, "case_age_days")
    /\ ~ IsNone(fn_target, "funding_amount") /\ ~ IsNone(fn_historical, "funding_amount")

\* the two feature sets differ by two severity steps and in nothing else
SeverityTwoStepsApart ==
    /\ SimScored
    /\ "injury_severity" \in fn_target.has
    /\ fn_historical = [fn_target EXCEPT !.injury_severity = fn_historical.injury_severity]
    /\ Abs(SeverityOrdinal(fn_target) - SeverityOrdinal(fn_historical)) = 2

\* C23 as stated: the similarity is the rounded weighted sum of the eight
\* factor similarities, and a severity difference of 2 steps with every
\* other factor equal gives 0.933
C23_WeightedSumExample933 ==
    /\ SimScored => fn_result = StatedSimilarity
    /\ SeverityTwoStepsApart => fn_result = 933

\* C23 amended: the similarity is the rounded weighted sum of the eight
\* factor similarities; a severity difference of 2 steps with every other
\* factor equal gives 0.867 (0.842 when both damages sets are empty)
C23_WeightedSumOfFactors ==
    /\ SimScored => fn_result = StatedSimilarity
    /\ SeverityTwoStepsApart =>
            fn_result = IF Get(fn_target, "damages_type", {}) # {} THEN 867 ELSE 842

\* C23 witness: a pair two severity steps apart, equal otherwise and with
\* damages on both sides, has been scored 0.867
C23_Witness ==
    /\ SeverityTwoStepsApart
    /\ Get(fn_target, "damages_type", {}) # {}
    /\ fn_result = 867

\* the feature set with a missing or unrecognized injury_severity label
\* replaced by "moderate" and such a liability_clarity label by "disputed"
MidScale(f) ==
    LET sev == IF Get(f, "injury_severity", "None")
                    \in {"minor", "moderate", "severe", "catastrophic"}
               THEN f.injury_severity ELSE "moderate"
        lia == IF Get(f, "liability_clarity", "None") \in {"clear", "disputed", "unclear"}
               THEN f.liability_clarity ELSE "disputed"
    IN  [f EXCEPT !.has = @ \cup {"injury_severity", "liability_clarity"},
                  !.none = @ \ {"injury_severity", "liability_clarity"},
                  !.injury_severity = sev, !.liability_clarity = lia]

\* a label of the scored pair is missing or unrecognized
LabelDefaulted ==
    \/ MidScale(fn_target) # fn_target
    \/ MidScale(fn_historical) # fn_historical

\* the pair is scored as the pair with mid-scale labels is, and the ordinals
\* the code uses lie in 1..4 and 1..3
OrdinalsMidScale ==
    SimScored =>
        /\ fn_result = StatedSimilarityOf(MidScale(fn_target), MidScale(fn_historical))
        /\ \A f \in {fn_target, fn_historical} :
              /\ severity_map(Get(f, "injury_severity", "moderate")) \in 1..4
              /\ liability_map(Get(f, "liability_clarity", "disputed")) \in 1..3

\* the feature key behind each factor
FactorKey ==
    [case_type |-> "case_type", injury_severity |-> "injury_severity",
     liability_clarity |-> "liability_clarity", jurisdiction |-> "jurisdiction",
     case_age |-> "case_age_days", funding_amount |-> "funding_amount",
     law_firm_quality |-> "law_firm_id", damages_type |-> "damages_type"]

\* the factors whose feature is missing in exactly one set of the pair
MissingOnOneSide ==
    { k \in Factors :
        (FactorKey[k] \in fn_target.has) # (FactorKey[k] \in fn_historical.has) }

\* C24 as stated: missing or unrecognized labels are scored as mid-scale,
\* the ordinals lie in 1..4 and 1..3, and no factor whose raw field is
\* missing is scored 0
C24_NoMissingFieldScoredZero ==
    /\ OrdinalsMidScale
    /\ SimScored =>
          \A k \in MissingOnOneSide :
              FactorSims(fn_target, fn_historical)[k][1] > 0

\* C24 amended: missing or unrecognized labels are scored as mid-scale and
\* the ordinals lie in 1..4 and 1..3; a missing case_type or damages_type
\* is not defaulted and its factor is 0 against a set that has one (a
\* non-empty one for damages); a missing case_age_days counts as 365 days,
\* its factor being 0 against an age 1095 or more days away; the factor of
\* any other missing field is positive
C24_LabelsMidScaleOthersCompared ==
    /\ OrdinalsMidScale
    /\ SimScored =>
          \A k \in MissingOnOneSide :
              FactorSims(fn_target, fn_historical)[k][1] = 0
                  <=> \/ k = "case_type"
                      \/ /\ k = "damages_type"
                         /\ fn_target.damages_type \cup fn_historical.damages_type # {}
                      \/ /\ k = "case_age"
                         /\ Abs(Get(fn_target, "case_age_days", 365)
                                - Get(fn_historical, "case_age_days", 365)) >= 1095

\* C24 witness: a target without any feature has been scored against a
\* historical set with a catastrophic injury, a case type and damages
C24_Witness ==
    /\ SimScored /\ LabelDefaulted
    /\ fn_target.has = {}
    /\ fn_historical.has = FeatureKeys
    /\ fn_historical.injury_severity = "catastrophic"
    /\ fn_result > 0

(***************************************************************************)
(* Claims on repeated scoring (SpecRepeat)                                 *)
(***************************************************************************)
RepeatDone == task = "score_twice" /\ c_pc = "done"

\* the record's incident date parses to a day
DateParses == c_case.incidentDate.kind \in {"str", "datetime"}

SearchDone == task = "find_comparable_cases" /\ s_pc = "done"

ReturnedIds == { s_result[i].case_id : i \in 1..Len(s_result) }

\* C6: only cases with similarity >= min_similarity are returned, at most
\* max_results of them, and no qualifying case that is left out scores
\* strictly higher than a returned one
C6_ThresholdAndTopN ==
    SearchDone =>
        /\ \A i \in 1..Len(s_result) :
              /\ s_result[i].similarity_score >= s_min
              /\ s_result[i].similarity_score = s_sims[s_result[i].case_id]
        /\ Len(s_result) <= s_max
        /\ \A k \in 1..Len(s_sims) :
              (s_sims[k] >= s_min /\ k \notin ReturnedIds)
                 => \A i \in 1..Len(s_result) :
                       s_result[i].similarity_score >= s_sims[k]

\* C6 witness: one record was filtered out by the threshold and one
\* qualifying record was cut off by max_results
C6_Witness ==
    /\ SearchDone
    /\ Len(s_result) = s_max
    /\ \E k \in 1..Len(s_sims) : s_sims[k] >= 0 /\ s_sims[k] < s_min
    /\ \E k \in 1..Len(s_sims) : s_sims[k] >= s_min /\ k \notin ReturnedIds

\* C7 as stated: ordered by similarity_score descending, ties by
\* settlement_amount descending
C7_OrderedTiesBySettlement ==
    SearchDone =>
        \A i, j \in 1..Len(s_result) :
            i < j =>
              \/ s_result[i].similarity_score > s_result[j].similarity_score
              \/ /\ s_result[i].similarity_score = s_result[j].similarity_score
                 /\ s_result[i].settlement_amount >= s_result[j].settlement_amount

\* C7 amended: ordered by similarity_score descending; cases with equal
\* similarity_score keep the order they have in the historical corpus
\* (case_id is the record's position), whatever their settlement_amount
C7_OrderedTiesInCorpusOrder ==
    SearchDone =>
        \A i, j \in 1..Len(s_result) :
            i < j =>
              \/ s_result[i].similarity_score > s_result[j].similarity_score
              \/ /\ s_result[i].similarity_score = s_result[j].similarity_score
                 /\ s_result[i].case_id < s_result[j].case_id

\* C7 witness: a returned list holding a tie in which the smaller settlement
\* comes first, followed by a strictly lower score
C7_Witness ==
    /\ SearchDone
    /\ Len(s_result) = 3
    /\ s_result[1].similarity_score = s_result[2].similarity_score
    /\ s_result[1].settlement_amount < s_result[2].settlement_amount
    /\ s_result[2].similarity_score > s_result[3].similarity_score

\* C8: an empty corpus gives the empty list without any call to the
\* extraction service; a corpus in which no record reaches the threshold
\* gives the empty list
C8_EmptyResultNotError ==
    SearchDone =>
        /\ s_corpus = <<>> => (s_result = <<>> /\ ai_calls = 0)
        /\ (\A k \in 1..Len(s_sims) : s_sims[k] < s_min) => s_result = <<>>

\* C8 witness: every record of a non-empty corpus was scored, none reached
\* the threshold, and the empty list was returned
C8_Witness ==
    /\ SearchDone
    /\ Len(s_corpus) > 1
    /\ Len(s_sims) = Len(s_corpus)
    /\ \A k \in 1..Len(s_sims) : s_sims[k] >= 0 /\ s_sims[k] < s_min
    /\ s_result = <<>>
    /\ ai_calls = Len(s_corpus) + 1

\* the loop over a non-empty corpus ran to its end
SearchLooped ==
    SearchDone /\ s_corpus # <<>> /\ s_target.incident_date.kind # "datetime"

\* feature extraction raises on record k (its incident date is a datetime
\* object), or scoring it raises (its funding amount is None)
ExtractionFails(k) == s_corpus[k].incident_date.kind = "datetime"

ScoringFails(k) == ~ ExtractionFails(k) /\ s_corpus[k].funding_amount = NoAmount

\* the qualifying cases among the records of the given positions, in corpus
\* order, each with the similarity it was given
QualifyingAmong(positions) ==
    SelectSeq([k \in 1..Len(s_corpus) |-> ComparableCase(k, s_corpus[k], s_sims[k])],
              LAMBDA c : c.case_id \in positions /\ c.similarity_score >= s_min)

\* every record on which nothing fails is scored
OthersStillScored ==
    /\ Len(s_sims) = Len(s_corpus)
    /\ \A k \in 1..Len(s_corpus) :
          ~ (ExtractionFails(k) \/ ScoringFails(k)) => s_sims[k] >= 0

\* C30 as stated: a record on which extraction, scoring or construction
\* fails is skipped, every other record is still scored, and the result is
\* that of the search on the corpus without the failing records
C30_FailingRecordsRemoved ==
    SearchLooped =>
        /\ OthersStillScored
        /\ s_result
             = TopResults(QualifyingAmong(
                              { k \in 1..Len(s_corpus) :
                                  ~ (ExtractionFails(k) \/ ScoringFails(k)) }),
                          s_max)

\* C30 amended: a record whose feature extraction raises is skipped; a
\* record whose scoring fails is given similarity 0.0, so it is left out
\* only under a positive min_similarity; every other record is still
\* scored, and the result is that of the search over the records that were
\* not skipped
C30_RaisingRecordsSkipped ==
    SearchLooped =>
        /\ OthersStillScored
        /\ \A k \in 1..Len(s_corpus) :
              /\ ExtractionFails(k) <=> s_sims[k] = Skipped
              /\ ScoringFails(k) => s_sims[k] = 0
        /\ s_result
             = TopResults(QualifyingAmong(
                              { k \in 1..Len(s_corpus) : ~ ExtractionFails(k) }),
                          s_max)
        /\ s_min > 0 =>
              \A i \in 1..Len(s_result) :
                  ~ ScoringFails(s_result[i].case_id)

\* C30 witness: the first record was skipped and the second one returned
C30_Witness ==
    /\ SearchLooped
    /\ Len(s_corpus) >= 2
    /\ ExtractionFails(1) /\ s_sims[1] = Skipped
    /\ ~ ExtractionFails(2) /\ ~ ScoringFails(2)
    /\ Len(s_result) >= 1
    /\ s_result[1].case_id = 2

(***************************************************************************)
(* Claims on analyze_comprehensive_risk (SpecRisk)                         *)
(***************************************************************************)
RiskDone == r_pc = "done"

RiskCombined == RiskDone /\ r_result.via = "combined"

\* C9: the reported overall risk score is 0.6 * (average of the external
\* sub-scores, 50 when there is none) + 0.4 * (average of the four rule-based
\* sub-scores), rounded to one decimal, and every reported score lies in
\* [0, 100]
C9_OverallIsWeightedBlend ==
    /\ RiskDone => r_result.risk_score >= 0 /\ r_result.risk_score <= 1000
    /\ RiskCombined =>
         LET ext  == r_result.ai_scores
             S    == IF ext = <<>> THEN 50 ELSE SumSeq(ext)
             n    == IF ext = <<>> THEN 1 ELSE Len(ext)
             rule == r_result.rule_based_factors
             R6   == 6 * (rule.case_type_risk + rule.financial_risk + rule.time_risk)
                     + rule.info_risk6
             \* 0.6 * S / n + 0.4 * (R6 / 6) / 4 = num / den
             num  == 144 * S + 4 * n * R6
             den  == 240 * n
         IN  2 * Abs(10 * num - r_result.risk_score * den) <= den

\* a combined assessment over two different external sub-scores whose blend
\* differs from both averages
C9_Witness ==
    /\ RiskCombined
    /\ Len(r_result.ai_scores) = 2
    /\ r_result.ai_scores[1] # r_result.ai_scores[2]
    /\ r_result.risk_score # 5 * SumSeq(r_result.ai_scores)

\* C10: the returned level is the level of the reported score (<= 30 LOW,
\* <= 50 MEDIUM, <= 70 HIGH, else VERY HIGH) and the recommendations are the
\* canned list of that level
C10_LevelMatchesReportedScore ==
    RiskCombined =>
        LET level == IF r_result.risk_score <= 300 THEN "LOW"
                     ELSE IF r_result.risk_score <= 500 THEN "MEDIUM"
                     ELSE IF r_result.risk_score <= 700 THEN "HIGH"
                     ELSE "VERY HIGH"
        IN  /\ r_result.risk_level = level
            /\ r_result.recommendations = CannedRecommendations(level)

\* a combined assessment of a record with requested amount 0, no usable
\* incident date and none of the six required fields
BareRecordAssessed ==
    /\ RiskCombined
    /\ r_plaintiff.requestedAmount = 0 /\ r_plaintiff.none = {}
    /\ r_plaintiff.incidentDate.kind \in {"none", "badstr"}
    /\ r_plaintiff.contactFields = 0
    /\ "caseType" \notin r_plaintiff.has

\* the four rule-based sub-scores of the bare record
BareSubScores ==
    LET rule == r_result.rule_based_factors
    IN  /\ rule.financial_risk = 70
        /\ rule.time_risk \in 60..65
        /\ r_plaintiff.incidentDate.kind = "none" => rule.time_risk = 65
        /\ rule.info_risk6 = 600
        /\ rule.case_type_risk = 50

\* C25 as stated: the bare record has financial_risk 70, time_risk in
\* [60, 65], information_completeness_risk 100 and the base case-type risk,
\* and its overall score lies strictly between 50 and 100 whatever the
\* external sub-scores
C25_BareRecordOverallAbove50 ==
    BareRecordAssessed =>
        /\ BareSubScores
        /\ r_result.risk_score > 500 /\ r_result.risk_score < 1000

\* C25 amended: the sub-scores are as stated and the overall score is
\* 0.6 * (external average, 50 when there is none) + 0.4 * (rule average):
\* it lies in [28.0, 88.5], is 58.5 (58.0 for an invalid date) without
\* external sub-scores, and exceeds 50 only if the external average
\* exceeds 35
C25_BareRecordOverallBlend ==
    BareRecordAssessed =>
        LET ext == r_result.ai_scores
            t   == r_result.rule_based_factors.time_risk
        IN  /\ BareSubScores
            /\ r_result.risk_score >= 280 /\ r_result.risk_score <= 885
            /\ ext = <<>> => r_result.risk_score = 520 + t
            /\ ext # <<>> =>
                  r_result.risk_score
                      = RoundDiv(6 * SumSeq(ext) + Len(ext) * (220 + t), Len(ext))
            /\ r_result.risk_score > 500 => (ext = <<>> \/ SumSeq(ext) > 35 * Len(ext))

\* C25 witness: the bare record assessed with external sub-scores that are
\* all 0 scores 28.5
C25_Witness ==
    /\ BareRecordAssessed
    /\ r_plaintiff.incidentDate.kind = "none"
    /\ r_result.ai_scores = <<0, 0>>
    /\ r_result.risk_score = 285

(***************************************************************************)
(* Claims on comprehensive_underwriting_analysis (SpecUW)                  *)
(***************************************************************************)
UWDone == u_pc = "done"

UWComputed == UWDone /\ u_error = ""

\* the weighted overall score of a computed recommendation, in thousandths,
\* from the five factor values the analysis has established
UWOverall ==
    LET liability  == u_liab.liability_score
        risk       == IF "risk_score" \in u_risk.has THEN u_risk.risk_score ELSE 500
        acceptable == /\ u_value.estimated_value > 0
                      /\ 10000 * u_plaintiff.requestedAmount
                            <= 15 * u_value.estimated_value
        law_firm   == assess_law_firm_quality(u_lawfirm)
        age        == u_fund.case_age_days
        age_score  == IF age <= 180 THEN 90 ELSE IF age <= 365 THEN 80
                      ELSE IF age <= 730 THEN 60 ELSE IF age <= 1095 THEN 40
                      ELSE 20
    IN  30 * liability + 25 * (1000 - risk)
        + 200 * (IF acceptable THEN 100 ELSE 30) + 150 * law_firm + 100 * age_score

\* C1: the decision and its confidence are determined by the weighted
\* overall score: >= 75 APPROVE 0.85, >= 60 CONDITIONAL 0.70,
\* >= 40 NEEDS_REVIEW 0.60, otherwise DECLINE 0.80
C1_DecisionByOverallScore ==
    UWComputed =>
        IF UWOverall >= 75000
        THEN u_rec.decision = "APPROVE" /\ u_rec.confidence = 85
        ELSE IF UWOverall >= 60000
        THEN u_rec.decision = "CONDITIONAL" /\ u_rec.confidence = 70
        ELSE IF UWOverall >= 40000
        THEN u_rec.decision = "NEEDS_REVIEW" /\ u_rec.confidence = 60
        ELSE u_rec.decision = "DECLINE" /\ u_rec.confidence = 80

\* liability 80, risk 20, acceptable ratio, law firm quality 70, age 100 days:
\* overall 83.5, APPROVE with confidence 0.85
C1_Witness ==
    /\ UWComputed
    /\ u_liab.liability_score = 800
    /\ u_risk.risk_score = 200
    /\ assess_law_firm_quality(u_lawfirm) = 70
    /\ u_fund.case_age_days = 100
    /\ UWOverall = 83500
    /\ u_rec.decision = "APPROVE" /\ u_rec.confidence = 85

\* C2: a raising stage ends in the error recommendation (NEEDS_REVIEW,
\* confidence 0, no recommended amount, one reasoning entry naming the
\* failure); an absent case record is such a failure; and confidence 0 is
\* produced in no other way
C2_FailureBecomesErrorRecommendation ==
    /\ u_error # "" => UWDone
    /\ UWDone =>
        /\ u_rec # NoDict
        /\ u_plaintiff = NoneObj => u_error # ""
        /\ u_risk = NoneObj => u_error # ""
        /\ u_error # "" =>
             /\ u_rec.decision = "NEEDS_REVIEW"
             /\ u_rec.confidence = 0
             /\ u_rec.recommended_amount = NoAmount
             /\ Len(u_rec.reasoning) = 1
             /\ u_rec.reasoning[1].message = u_error
        /\ u_error = "" => u_rec.confidence \in {85, 70, 60, 80}

\* the case record is absent and the analysis has returned
C2_Witness ==
    /\ UWDone
    /\ u_plaintiff = NoneObj
    /\ u_rec.confidence = 0

\* the inputs of the financial assessment of a computed recommendation:
\* requested amount in dollars, risk score in tenths, case value in cents
UWRequested == Get(u_plaintiff, "requestedAmount", 0)

UWRisk == Get(u_risk, "risk_score", 500)

UWValue == Get(u_value, "estimated_value", 0)

\* C14: risk_adjusted_amount = min(requested * max(0.3, 1 - risk / 200),
\* estimated value * 0.15), in 1/2000 dollar, whatever the three inputs
C14_RiskAdjustedAmount ==
    UWComputed =>
        LET multiplier == IF 2000 - UWRisk >= 600 THEN 2000 - UWRisk ELSE 600
            adjusted   == UWRequested * multiplier
            cap        == 3 * UWValue
        IN  /\ u_fin.requested_amount = UWRequested
            /\ u_fin.risk_adjusted_amount = IF adjusted <= cap THEN adjusted ELSE cap

\* C14 witness: a risk score of 150 puts the multiplier at its floor of 0.3
\* and the 15% cap does not bind: 5000 requested gives 1500
C14_Witness ==
    /\ UWComputed
    /\ UWRisk = 1500 /\ UWRequested = 5000
    /\ 3 * UWValue > 5000 * 600
    /\ u_fin.risk_adjusted_amount = 2000 * 1500

\* C15: recommended_amount is null exactly for DECLINE and NEEDS_REVIEW; for
\* APPROVE and CONDITIONAL it exceeds neither the requested amount nor 15%
\* of the estimated case value
C15_RecommendedAmountWithinCap ==
    UWDone =>
        /\ u_rec.recommended_amount = NoAmount
                <=> u_rec.decision \in {"DECLINE", "NEEDS_REVIEW"}
        /\ u_rec.decision \in {"APPROVE", "CONDITIONAL"} =>
                /\ u_rec.recommended_amount <= 2000 * UWRequested
                /\ u_rec.recommended_amount <= 3 * UWValue

\* the conditions of the returned recommendation whose text is the given one
ConditionsWith(text) ==
    { i \in 1..Len(u_rec.conditions) : u_rec.conditions[i].text = text }

\* C16: a CONDITIONAL recommendation carries the reduce-funding condition
\* (to min(requested, risk_adjusted_amount)) exactly when the funding ratio
\* is unacceptable, the enhanced-monitoring condition exactly when the risk
\* score exceeds 60 and the liability-documentation condition exactly when
\* the liability score is below 60; every other computed decision has no
\* conditions
C16_ConditionsOfConditional ==
    UWComputed =>
        LET acceptable == UWValue > 0 /\ 10000 * UWRequested <= 15 * UWValue
            reduce     == ConditionsWith("Reduce funding amount to")
            monitor    == ConditionsWith(
                              "Enhanced monitoring and progress reporting required")
            document   == ConditionsWith("Additional liability documentation required")
        IN  IF u_rec.decision = "CONDITIONAL"
            THEN /\ Cardinality(reduce) = (IF acceptable THEN 0 ELSE 1)
                 /\ \A i \in reduce :
                        u_rec.conditions[i].amount
                            = Min2(2000 * UWRequested, u_fin.risk_adjusted_amount)
                 /\ Cardinality(monitor) = (IF UWRisk > 600 THEN 1 ELSE 0)
                 /\ Cardinality(document) = (IF u_liab.liability_score < 600 THEN 1 ELSE 0)
                 /\ Len(u_rec.conditions)
                        = Cardinality(reduce) + Cardinality(monitor) + Cardinality(document)
            ELSE u_rec.conditions = <<>>

\* C16 witness: a CONDITIONAL recommendation for a risk score of 20 (no
\* monitoring) whose only condition reduces the funding below the request
C16_Witness ==
    /\ UWComputed
    /\ u_rec.decision = "CONDITIONAL"
    /\ UWRisk = 200
    /\ Len(u_rec.conditions) = 1
    /\ u_rec.conditions[1].text = "Reduce funding amount to"
    /\ u_rec.conditions[1].amount > 0
    /\ u_rec.conditions[1].amount < 2000 * UWRequested

\* a recommendation was computed for a record whose incident date is
\* missing or does not parse
UWDateUnknown ==
    /\ UWComputed
    /\ u_plaintiff # NoneObj
    /\ u_plaintiff.incidentDate.kind \in {"none", "badstr"}

\* C27: without a usable incident date underwriting still returns a
\* decision, the case-age score is a neutral one (neither the best, 90, nor
\* the worst, 20) and the reasoning does not call the case recent
C27_UnknownDateScoredNeutral ==
    UWDateUnknown =>
        /\ u_rec.decision \in {"APPROVE", "CONDITIONAL", "NEEDS_REVIEW", "DECLINE"}
        /\ score_case_age(u_fund.case_age_days) \notin {90, 20}
        /\ \A i \in 1..Len(u_rec.reasoning) :
              u_rec.reasoning[i] # "Recent case with fresh evidence"

\* the case fundamentals have been analysed
UWFundamentalsKnown == "case_age_days" \in u_fund.has

\* the limitation period of the analysed case type
StatuteLimit ==
    IF u_fund.case_type = "Workers Compensation" THEN 365
    ELSE IF u_fund.case_type = "Medical Malpractice" THEN 730
    ELSE 1095

\* the overlay uses the period of the case type and classifies by the days
\* left of it
StatuteLevelByDaysLeft ==
    LET overlay == u_fund.statute_of_limitations_risk
        left    == StatuteLimit - u_fund.case_age_days
    IN  /\ overlay.statute_limit_days = StatuteLimit
        /\ overlay.risk_level = IF left <= 0 THEN "CRITICAL"
                                ELSE IF left <= 90 THEN "HIGH"
                                ELSE IF left <= 180 THEN "MEDIUM"
                                ELSE "LOW"

\* C28 as stated: the overlay uses the limitation period of the case type
\* (365 / 730 / 1095), reports days_remaining = limit - case_age_days and
\* classifies CRITICAL <= 0, HIGH <= 90, MEDIUM <= 180, else LOW
C28_StatuteOverlayReportsDifference ==
    UWFundamentalsKnown =>
        /\ StatuteLevelByDaysLeft
        /\ u_fund.statute_of_limitations_risk.days_remaining
              = StatuteLimit - u_fund.case_age_days

\* C28 amended: as stated, except that the reported days_remaining is
\* max(0, limit - case_age_days): 0 once the period has run out
C28_StatuteOverlayReportsDaysLeft ==
    UWFundamentalsKnown =>
        /\ StatuteLevelByDaysLeft
        /\ u_fund.statute_of_limitations_risk.days_remaining
              = Max2(0, StatuteLimit - u_fund.case_age_days)

\* C28 witness: a Workers Compensation case 400 days old, 35 days past its
\* period, is CRITICAL with 0 days remaining
C28_Witness ==
    /\ UWFundamentalsKnown
    /\ u_fund.case_type = "Workers Compensation"
    /\ u_fund.case_age_days = 400
    /\ u_fund.statute_of_limitations_risk.risk_level = "CRITICAL"
    /\ u_fund.statute_of_limitations_risk.days_remaining = 0

\* the rank of a decision in the order DECLINE < NEEDS_REVIEW <
\* CONDITIONAL < APPROVE
DecisionRank(decision) ==
    CASE decision = "DECLINE" -> 0
      [] decision = "NEEDS_REVIEW" -> 1
      [] decision = "CONDITIONAL" -> 2
      [] OTHER -> 3

\* the decision for the given assessments
DecisionFor(fund, liab, law_firm, financial, risk) ==
    DecisionOf(OverallScore(FactorScores(fund, liab, law_firm, financial, risk))).decision

\* the decisions reached from the assessments of the computed recommendation
\* by improving one input and keeping the four others: a higher liability
\* score, a higher law-firm quality score, a lower risk score, an acceptable
\* instead of an unacceptable funding ratio, or a lower case age
ImprovedDecisions ==
    LET law_firm == assess_law_firm_quality(u_lawfirm)
        risk10   == Get(u_risk, "risk_score", 500)
    IN  { DecisionFor(u_fund, [u_liab EXCEPT !.liability_score = l], law_firm,
                      u_fin, u_risk) :
            l \in { x \in {0, 250, 485, 500, 773, 1000} : x >= u_liab.liability_score } }
        \cup
        { DecisionFor(u_fund, u_liab, q, u_fin, u_risk) :
            q \in { x \in {0, 50, 65, 80, 100} : x >= law_firm } }
        \cup
        { DecisionFor(u_fund, u_liab, law_firm, u_fin,
                      [has |-> {"risk_score"}, none |-> {}, risk_score |-> r]) :
            r \in { x \in {0, 200, 500, 560, 900, 1000} : x <= risk10 } }
        \cup
        { DecisionFor(u_fund, u_liab, law_firm,
                      [u_fin EXCEPT !.funding_ratio_acceptable = TRUE], u_risk) }
        \cup
        { DecisionFor([u_fund EXCEPT !.case_age_days = a], u_liab, law_firm,
                      u_fin, u_risk) :
            a \in { x \in {0, 100, 180, 181, 400, 800, 1095, 1200} :
                      x <= u_fund.case_age_days } }

\* C29: improving one input of the decision, the others fixed, never moves
\* the decision to a worse rank
C29_DecisionMonotone ==
    UWComputed =>
        \A d \in ImprovedDecisions : DecisionRank(d) >= DecisionRank(u_rec.decision)

\* C29 witness: a computed NEEDS_REVIEW that an improved input turns into
\* CONDITIONAL and a lower case age into something better than before
C29_Witness ==
    /\ UWComputed
    /\ u_rec.decision = "NEEDS_REVIEW"
    /\ u_fund.case_age_days = 1200
    /\ "CONDITIONAL" \in ImprovedDecisions
    /\ DecisionFor([u_fund EXCEPT !.case_age_days = 100], u_liab,
                   assess_law_firm_quality(u_lawfirm), u_fin, u_risk) = "CONDITIONAL"

(***************************************************************************)
(* Claims on analyze_comparable_case_outcomes (SpecOutcome)                *)
(***************************************************************************)
OutcomeDone == task = "analyze_comparable_case_outcomes" /\ o_pc = "done"

\* the analysis returned the full result of a non-empty list
OutcomeComputed == OutcomeDone /\ "settlement_statistics" \in o_result.has

\* the positive settlement amounts of the analysed list, in list order
OutcomeSettlements ==
    Positive([i \in 1..Len(o_cases) |-> o_cases[i].settlement_amount])

\* the median of a sorted non-empty list as a fraction: the middle element,
\* or the mean of the two middle elements of a list of even length
MedianOf(sorted) ==
    LET n == Len(sorted)
    IN  IF n % 2 = 1 THEN <<sorted[(n \div 2) + 1], 1>>
        ELSE <<sorted[n \div 2] + sorted[(n \div 2) + 1], 2>>

\* sum of (n * x - total) ** 2 over a list
RECURSIVE SumSquaredDeviations(_, _, _)
SumSquaredDeviations(sq, n, total) ==
    IF sq = <<>> THEN 0
    ELSE (n * Head(sq) - total) * (n * Head(sq) - total)
         + SumSquaredDeviations(Tail(sq), n, total)

\* C17: the reported statistics are the arithmetic mean, the median and the
\* population standard deviation of the positive settlement amounts; for
\* the amounts 10000, 20000, 30000 the mean is 20000, the median 20000 and
\* the variance 200000000 / 3
C17_MeanMedianPopulationStd ==
    (OutcomeComputed /\ OutcomeSettlements # <<>>) =>
        LET st     == o_result.settlement_statistics
            n      == Len(OutcomeSettlements)
            xs     == [i \in 1..n |-> OutcomeSettlements[i] \div st.unit]
            median == MedianOf(Sorted(OutcomeSettlements))
        IN  /\ st.count = n /\ st.sum = SumSeq(OutcomeSettlements)
            /\ st.median[1] * median[2] = median[1] * st.median[2]
            /\ n * st.variance_units = SumSquaredDeviations(xs, n, SumSeq(xs))
            /\ Sorted(OutcomeSettlements) = <<10000, 20000, 30000>> =>
                    /\ st.sum = 20000 * st.count
                    /\ st.median = <<20000, 1>>
                    /\ 3 * (st.unit \div 100) * (st.unit \div 100) * st.variance_units
                            = 20000 * st.count * st.count

\* the standard deviation of the result exceeds its mean
OutcomeStdAboveMean ==
    LET st == o_result.settlement_statistics
    IN  st.variance_units > st.sum_units * st.sum_units

\* C18: the estimated range is [max(0, mean - std), mean + std], and in
\* every result that carries a range 0 <= low <= high
C18_RangeIsMeanPlusMinusStd ==
    (OutcomeDone /\ "estimated_settlement_range" \in o_result.has) =>
        LET range == o_result.estimated_settlement_range
        IN  /\ RealSign(range.low) >= 0
            /\ RealLeq(range.low, range.high)
            /\ (OutcomeComputed /\ OutcomeSettlements # <<>>) =>
                    LET st == o_result.settlement_statistics
                    IN  /\ range.high = Real(st.sum_units, 1, st.variance_units,
                                             st.count, st.unit)
                        /\ range.low = IF OutcomeStdAboveMean
                                           \/ st.variance_units = st.sum_units * st.sum_units
                                       THEN RealZero
                                       ELSE Real(st.sum_units, 0 - 1, st.variance_units,
                                                 st.count, st.unit)

\* C18 witness: a result whose standard deviation exceeds its mean, so that
\* the lower end is clamped to 0
C18_Witness ==
    /\ OutcomeComputed /\ OutcomeSettlements # <<>>
    /\ OutcomeStdAboveMean
    /\ o_result.estimated_settlement_range.low = RealZero
    /\ RealSign(o_result.estimated_settlement_range.high) > 0

\* C19 as stated: with a non-empty list and no positive settlement the
\* statistics report mean, median and standard deviation as 0 and the range
\* is {0, 0}
C19_ZeroStatistics ==
    (OutcomeComputed /\ OutcomeSettlements = <<>>) =>
        LET st == o_result.settlement_statistics
        IN  /\ {"mean", "median", "std"} \subseteq st.has
            /\ o_result.estimated_settlement_range = [low |-> RealZero, high |-> RealZero]

\* C19 amended: with a non-empty list and no positive settlement the
\* statistics are the empty object, which reports no mean, median or
\* standard deviation, and the range is {0, 0}; amounts that are not
\* positive never contribute to the statistics
C19_NoStatisticsWithoutPositiveSettlement ==
    /\ (OutcomeComputed /\ OutcomeSettlements = <<>>) =>
            /\ o_result.settlement_statistics = NoDict
            /\ o_result.estimated_settlement_range = [low |-> RealZero, high |-> RealZero]
    /\ (OutcomeComputed /\ OutcomeSettlements # <<>>) =>
            /\ o_result.settlement_statistics.count = Len(OutcomeSettlements)
            /\ o_result.settlement_statistics.sum = SumSeq(OutcomeSettlements)
            /\ o_result.settlement_statistics.min > 0

\* C19 witness: a list holding only a zero and a negative settlement has
\* been analysed
C19_Witness ==
    /\ OutcomeComputed
    /\ Len(o_cases) = 2
    /\ o_cases[1].settlement_amount = 0 /\ o_cases[2].settlement_amount < 0
    /\ o_result.settlement_statistics = NoDict

\* the number of cases whose outcome, lower-cased and stripped as for the
\* outcome distribution, is a successful one
SuccessfulByDistribution ==
    Cardinality({ i \in 1..Len(o_cases) :
        DistributionKey(o_cases[i].outcome)
            \in {"settled", "judgment_plaintiff", "favorable"} })

\* C20: success_probability is the fraction of cases whose outcome, after
\* the normalisation of the outcome distribution (case folding and
\* trimming), is settled, judgment_plaintiff or favorable; it is 0.5 for an
\* empty list and always lies in [0, 1]
C20_SuccessProbabilityOfNormalisedOutcomes ==
    (OutcomeDone /\ "success_probability" \in o_result.has) =>
        /\ o_result.success_probability >= 0 /\ o_result.success_probability <= 1000
        /\ o_cases = <<>> => o_result.success_probability = 500
        /\ o_cases # <<>> =>
                o_result.success_probability
                    = RoundDiv(1000 * SuccessfulByDistribution, Len(o_cases))

\* the grade of a confidence score
GradeOf(score) ==
    IF score >= 80 THEN "high" ELSE IF score >= 50 THEN "medium" ELSE "low"

\* the points of the case count of the analysed list
CountPoints ==
    LET n == Len(o_cases)
    IN  IF n >= 10 THEN 30 ELSE IF n >= 5 THEN 20 ELSE IF n >= 3 THEN 10 ELSE 0

\* the points of the average similarity (thousandths) of the analysed list
SimilarityPoints ==
    LET n   == Len(o_cases)
        sum == SumSeq([i \in 1..n |-> o_cases[i].similarity_score])
    IN  IF sum >= 700 * n THEN 30 ELSE IF sum >= 500 * n THEN 20
        ELSE IF sum >= 300 * n THEN 10 ELSE 0

\* the points of the coefficient of variation std / mean of the reported
\* statistics, the signal being skipped only without a positive mean:
\* std / mean = sqrt(variance_units) / sum_units
VariationPoints ==
    LET stats == o_result.settlement_statistics
    IN  IF stats.has = {} \/ stats.sum_units = 0 THEN 0
        ELSE IF 4 * stats.variance_units <= stats.sum_units * stats.sum_units THEN 25
        ELSE IF stats.variance_units <= stats.sum_units * stats.sum_units THEN 15
        ELSE 5

\* the points of the coefficient of variation when the signal is skipped
\* for a standard deviation of 0
VariationPointsPositiveStd ==
    IF o_result.settlement_statistics.has # {}
       /\ o_result.settlement_statistics.variance_units = 0
    THEN 0 ELSE VariationPoints

\* the recency bonus when recent of the comparables are at most 1095 days old
RecentPoints(recent) == IF 10 * recent >= 7 * Len(o_cases) THEN 15 ELSE 0

\* C21: the confidence grade is the grade of the sum of the count points,
\* the similarity points, the variation points (as the code awards them)
\* and 15 points when at least 70% of the comparables are recent, whatever
\* number of the comparables is recent
C21_ConfidenceAddsRecencyBonus ==
    OutcomeComputed =>
        \A recent \in 0..Len(o_cases) :
            o_result.prediction_confidence
                = GradeOf(CountPoints + SimilarityPoints
                          + VariationPointsPositiveStd + RecentPoints(recent))

\* C22: the confidence grade counts 25 / 15 / 5 points for a coefficient of
\* variation <= 0.5 / <= 1.0 / above, whenever the settlements have a
\* positive mean: equal settlements (std 0) receive the 25 points
C22_VariationSkippedOnlyForZeroMean ==
    OutcomeComputed =>
        o_result.prediction_confidence
            = GradeOf(CountPoints + SimilarityPoints + VariationPoints)

(***************************************************************************)
(* Claims on generate_case_valuation_report (SpecValuation, SpecPipeline)  *)
(***************************************************************************)
ValuationDone == task = "generate_case_valuation_report" /\ v_pc = "done"

\* the report went through _calculate_risk_adjusted_valuation without an
\* exception
ValuationComputed == ValuationDone /\ v_val # NoDict /\ v_val.error = ""

\* the positive settlement amounts of the valued list, in list order
ValuationSettlements ==
    Positive([i \in 1..Len(v_cases) |-> v_cases[i].settlement_amount])

\* the mean of the positive settlement amounts (0 if there is none)
ValuationSettlementMean ==
    IF ValuationSettlements = <<>> THEN <<0, 1>>
    ELSE Frac(SumSeq(ValuationSettlements), Len(ValuationSettlements))

\* C11: the base estimate is 0.6 * (mean of the comparables' positive
\* settlements) + 0.4 * (external point estimate) when both are positive,
\* the positive one when only one is, and otherwise the default of the
\* target's case type (45000 / 35000 / 125000 / 25000 / 85000, else 50000)
C11_BaseEstimateBlendsMeanAndExternal ==
    (/\ ValuationComputed
     /\ "settlement_statistics" \in v_outcomes.has
     /\ {"caseType", "case_type"} \cap v_target.has # {}) =>
        LET mean     == ValuationSettlementMean
            external == ai_mean(v_ai)
            ct       == Get(v_target, "caseType", v_target.case_type)
            default  == CASE ct = "Auto Accident" -> 45000
                          [] ct = "Slip and Fall" -> 35000
                          [] ct = "Medical Malpractice" -> 125000
                          [] ct = "Workers Compensation" -> 25000
                          [] ct = "Product Liability" -> 85000
                          [] OTHER -> 50000
            expected == IF mean[1] > 0 /\ external[1] > 0
                        THEN FracAdd(FracMul(mean, <<6, 10>>),
                                     FracMul(external, <<4, 10>>))
                        ELSE IF mean[1] > 0 THEN mean
                        ELSE IF external[1] > 0 THEN external
                        ELSE <<default, 1>>
        IN  v_val.base_valuation = RoundFrac(expected, 100)

C13_EmptyCorpusValuedAtDefault ==
    /\ (task = "find_comparable_cases" /\ s_pc = "done" /\ s_corpus = <<>>)
            => s_result = <<>>
    /\ (OutcomeDone /\ o_cases = <<>>) =>
            /\ o_result.prediction_confidence = "low"
            /\ o_result.success_probability = 500
            /\ o_result.estimated_settlement_range = [low |-> RealZero, high |-> RealZero]
    /\ (ValuationDone /\ v_cases = <<>> /\ v_target # NoneObj) =>
            /\ "estimated_value" \in v_report.valuation_summary.has
            /\ v_report.valuation_summary.estimated_value
                    = 100 * case_type_average(
                                Get(v_target, "caseType",
                                    Get(v_target, "case_type", "Auto Accident")))

\* C13 amended: with an empty corpus the search returns an empty list, the
\* outcome analysis has confidence "low", success probability 0.5 and
\* range {0, 0}, and the valuation report is the placeholder "No comparable
\* cases available for valuation" with confidence "none", which carries no
\* estimated value
C13_EmptyCorpusGivesNoValuation ==
    /\ (task = "find_comparable_cases" /\ s_pc = "done" /\ s_corpus = <<>>)
            => s_result = <<>>
    /\ (OutcomeDone /\ o_cases = <<>>) =>
            /\ o_result.prediction_confidence = "low"
            /\ o_result.success_probability = 500
            /\ o_result.estimated_settlement_range = [low |-> RealZero, high |-> RealZero]
    /\ (ValuationDone /\ v_cases = <<>>) =>
            /\ v_report.has = {"valuation_summary", "confidence"}
            /\ v_report.valuation_summary.text
                    = "No comparable cases available for valuation"
            /\ v_report.valuation_summary.has = {}
            /\ v_report.confidence = "none"
            /\ v_val = NoDict /\ ai_calls = 0

\* C13 witness: the report for a Medical Malpractice target and an empty
\* list has been returned
C13_Witness ==
    /\ ValuationDone
    /\ v_cases = <<>>
    /\ v_target # NoneObj /\ Get(v_target, "caseType", "") = "Medical Malpractice"
    /\ v_report.confidence = "none"

(***************************************************************************)
(* All four evaluations under fair scheduling: a started evaluation keeps  *)
(* taking steps, and a call to the extraction service returns or raises    *)
(***************************************************************************)
\* the inputs that decide which path each evaluation takes
LiveCorpora ==
    LET h1 == CaseRecord("Auto Accident", 10000, IsoDate(0 - 365))
        h2 == CaseRecord("Auto Accident", 30000, DateTimeObj(0 - 365))
    IN  {<<>>, <<h1>>, <<h2>>, <<h1, h2>>, <<h2, h1, h1>>}

LiveRiskPlaintiffs ==
    { p \in RiskPlaintiffs :
        /\ p.requestedAmount \in {0, 10000} /\ p.contactFields \in {0, 5}
        /\ p.caseType = "Auto Accident"
        /\ p.incidentDate \in {NoDate, IsoDate(0 - 400), DateTimeObj(0 - 400)} }

LiveUWPlaintiffs ==
    { p \in UWPlaintiffs :
        \/ p = NoneObj
        \/ /\ p.incidentDate = IsoDate(0 - 100)
           /\ p.caseType \in {"Other", "None"}
           /\ p.requestedAmount \in {0, 5000} }

LiveOutcomeLists ==
    { cases \in OutcomeCaseLists :
        /\ Len(cases) <= 2
        /\ \A i \in 1..Len(cases) :
              cases[i] \in {OutcomeCase(1000, 12, "settled", 800),
                            OutcomeCase(0, 0, "dismissed", 400),
                            OutcomeCase(1000, 12, "None", 800)} }

InitLive ==
    \/ InitSearch /\ s_corpus \in LiveCorpora
    \/ InitOutcome /\ o_cases \in LiveOutcomeLists
    \/ InitRisk /\ r_plaintiff \in LiveRiskPlaintiffs
    \/ /\ InitUW /\ u_plaintiff \in LiveUWPlaintiffs
       /\ u_lawfirm = NoneObj /\ u_comparables = <<>>

NextLive == NextSearch \/ NextOutcome \/ NextRisk \/ NextUW

LiveSpec == InitLive /\ [][NextLive]_vars /\ WF_vars(NextLive)

\* the evaluation has returned its result object
Returned ==
    \/ task = "find_comparable_cases" /\ s_pc = "done"
    \/ task = "analyze_comparable_case_outcomes" /\ o_pc = "done" /\ o_result # NoDict
    \/ task = "analyze_comprehensive_risk" /\ r_pc = "done" /\ r_result # NoDict
    \/ task = "comprehensive_underwriting_analysis" /\ u_pc = "done" /\ u_rec # NoDict

\* the latest call errored, returned malformed JSON or timed out
CallFailed == ai_last \in {"error", "malformed", "timeout"}

\* after a failed call the sub-result is the fixed default and the
\* evaluation has moved on
DefaultSubstituted ==
    /\ (s_pc = "loop" /\ s_i = 1 /\ CallFailed)
          => s_tfeat = get_default_features(s_target, now)
    /\ (s_pc = "loop" /\ s_i > 1 /\ CallFailed /\ ~PromptRaises(s_corpus[s_i - 1]))
          => s_sims[s_i - 1] =
                calculate_case_similarity(
                    s_tfeat, get_default_features(s_corpus[s_i - 1], now))
    /\ (o_pc = "done" /\ CallFailed)
          => /\ o_result.trends_analysis = "default"
             /\ o_result.case_count = Len(o_cases)
    /\ (r_pc = "done" /\ CallFailed)
          => /\ r_ai = default_ai_assessment
             /\ r_result.via \in {"combined", "default"}
             /\ r_result.ai_scores = <<>>
    /\ (u_pc = "liability" /\ CallFailed) => u_fund.notes_analysis = "default"
    /\ (u_pc = "valuation" /\ CallFailed)
          => u_liab = evaluate_liability_prospects(
                         u_plaintiff, u_risk,
                         [isdict |-> TRUE, has |-> {"score"}, numeric |-> TRUE,
                          score |-> 50])
    /\ (u_pc = "done" /\ CallFailed)
          => u_value = estimate_case_value(
                          u_plaintiff,
                          [isdict |-> TRUE, has |-> {"estimated_value"},
                           estimated_value |-> 50000],
                          u_comparables)

\* no call is repeated: one per case record plus the target, one for the
\* trends, one for the risk assessment, at most three for underwriting
CallsBounded ==
    /\ task = "find_comparable_cases" => ai_calls <= Len(s_corpus) + 1
    /\ task = "analyze_comparable_case_outcomes" => ai_calls <= 1
    /\ task = "analyze_comprehensive_risk" => ai_calls <= 1
    /\ task = "comprehensive_underwriting_analysis" => ai_calls <= 3

====
